---------------------------- MODULE Spec2Model ----------------------------
(***************************************************************************)
(* Model of the HealthKart deal monitor: the retry helper (withRetry), the *)
(* catalog client (HealthKartApiClient), and the alert use case            *)
(* (SendAlertUseCase).  Each component has its own specification over the  *)
(* shared variables; a specification leaves the other components idle.     *)
(***************************************************************************)
EXTENDS Integers, Sequences, FiniteSets, TLC

(***************************************************************************)
(* Bounds of the model.                                                    *)
(***************************************************************************)
MaxRetriesBound == 3
MaxTotal == 5
MaxPerPage == 2
NumCategories == 2
PagesPerCategory == 2
MaxTicks == 5
MaxItems == 2
MaxRaw == 2
MaxDeals == 6
MaxTgRetries == 2
MaxBatch == 3
MaxUpdates == 1
MaxMonitored == 2
MaxCategoryRuns == 2
MaxHttpRetries == 2
MaxDeliveryRetries == 2
MaxSchedulerCalls == 6

(***************************************************************************)
(* Program constants.                                                      *)
(***************************************************************************)
NoStatus == 0
TelegramRetryDelay == 1000
BackoffMultiplier == 2
CatalogRetryDelay == 2000
MaxRetryDelayMs == 30000
RequestDelayMs == 1000
MaxProductsInAlert == 5
NaN == -1000000
Undefined == -2000000
MaxPercentage == 100
MaxRating == 5
AlertBatchLimit == 5

VARIABLES
    \* ---- withRetry (shared/utils/apiUtils.ts) ----
    wr_pc,            \* "idle" | "start" | "awaiting" | "sleep" | "returned" | "thrown"
    wr_maxRetries,    \* config.maxRetries
    wr_delayMs,       \* config.delayMs
    wr_attempt,       \* loop variable `attempt`
    wr_currentDelay,  \* local `currentDelay`
    wr_lastError,     \* local `lastError`
    wr_calls,         \* number of invocations of fn so far
    wr_sleeps,        \* the waits passed to sleep(), in order
    wr_result,        \* value withRetry resolved with
    wr_thrown,        \* error withRetry rejected with
    wr_outcomes,      \* what fn did on each invocation, in order
    \* ---- the catalog server, as seen through its responses ----
    sv_total,         \* results.total_variants it reports
    sv_perPage,       \* results.perPage it reports
    sv_pages,         \* the item lists of the pages it has served, in order
    \* ---- HealthKartApiClient.fetchCategoryProducts / executeWithRetry ----
    cl_maxRetries,    \* this.maxRetries
    pg_pc,            \* "idle" | "start" | "awaiting" | "delay" | "resolved" | "rejected"
    pg_attempt,       \* loop variable `attempt` of executeWithRetry
    pg_lastError,     \* local `lastError` of executeWithRetry
    pg_http,          \* the HTTP attempts of this page fetch and how each ended
    pg_delays,        \* the waits between attempts
    pg_response,      \* response.data the page fetch resolved with
    pg_error,         \* error the page fetch rejected with
    \* ---- HealthKartApiClient.fetchAllCategoryProducts ----
    fa_pc,            \* "idle" | "loop" | "paging" | "returned" | "rejected"
    fa_currentPage,   \* local `currentPage`
    fa_totalPages,    \* local `totalPages`
    fa_allProducts,   \* local `allProducts`
    fa_requested,     \* the page numbers passed to fetchCategoryProducts, in order
    fa_error,         \* error fetchAllCategoryProducts rejected with
    \* ---- HealthKartApiClient.enforceRateLimit under executeMultiCategory ----
    clock,            \* Date.now()
    ticks,            \* how often the clock has advanced
    lastRequestTime,  \* this.lastRequestTime
    rl_pc,            \* per category run: "ready" | "waiting" | "inflight" | "done"
    rl_wakeAt,        \* per category run: when the delay() timer is due
    rl_sentAt,        \* per category run: when its page request went out
    rl_fetched,       \* per category run: pages fetched so far
    rl_issued,        \* the times at which page requests went out, in order
    \* ---- HealthKartApiClient.fetchFilteredProducts ----
    ff_pc,            \* "idle" | "called" | "returned"
    ff_allProducts,   \* what fetchAllCategoryProducts resolved with
    ff_filter,        \* the ProductFilter argument
    ff_result,        \* what fetchFilteredProducts resolved with
    \* ---- SendAlertUseCase.execute ----
    sa_pc,            \* "idle" | "start" | "awaitFetch" | "process" | "notify"
                      \* | "awaitSend" | "resolved" | "rejected"
    sa_config,        \* config.productFilter, with config.endpoint.maxProductsInAlert
    sa_stages,        \* the stages begun so far, in order
    sa_succeeded,     \* the stages that returned normally, in order
    sa_calls,         \* the calls made to the injected services, in order
    sa_rawProducts,   \* rawProducts in execute
    sa_qualifyingDeals, \* qualifyingDeals in execute
    sa_failure,       \* the failure a stage caught (NoError when none)
    sa_error,         \* what execute rejected with
    sa_result,        \* what execute resolved with
    \* ---- the run wired by ServiceFactory ----
    rn_catalog,       \* the items the category holds, over all its pages
    \* ---- TelegramService.sendDealAlerts ----
    sd_pc,            \* "idle" | "start" | "awaitSend" | "returned"
    sd_input,         \* the products as the caller passed them
    sd_products,      \* the caller's array (sorted in place by the call)
    sd_messages,      \* the bodies handed to sendMessage, in order
    sd_returned,      \* what sendDealAlerts resolved with
    \* ---- telegramService.sendMessage ----
    tg_pc,            \* "idle" | "start" | "sending" | "delay" | "outerSleep"
                      \* | "resolved" | "rejected"
    tg_wrapped,       \* whether sendMessage is the wrapper ServiceFactory installs
    tg_maxRetries,    \* config.telegram.maxRetries
    tg_attempt,       \* attempt in sendWithRetry
    tg_outerAttempt,  \* attempt in the wrapper's withRetry
    tg_botCalls,      \* how often bot.sendMessage was invoked
    tg_lastCode,      \* the code of the latest rejection of bot.sendMessage
    tg_nonRetryableAt, \* tg_botCalls at the first rejection with a non-retryable code
    tg_error,         \* what sendMessage rejected with
    \* ---- HealthKartTransformService.transformToProduct ----
    tf_pc,            \* "idle" | "called" | "done"
    tf_item,          \* the raw item
    tf_result,        \* Returned(product) or Thrown(error)
    \* ---- HealthKartTransformService.transformToProducts ----
    tb_pc,            \* "idle" | "loop" | "done"
    tb_input,         \* healthKartProducts
    tb_index,         \* items of the for loop already visited
    tb_products,      \* products
    tb_errors,        \* errors: the productId of each skipped item
    tb_threw,         \* an exception left transformToProducts
    \* ---- Product.create / Product.updatePricing ----
    pr_pc,            \* "idle" | "called" | "ready" | "failed"
    pr_data,          \* the ProductInterface given to Product.create
    pr_product,       \* <<>> or <<the Product instance>>
    pr_updates,       \* updatePricing calls made
    pr_threw,         \* the last call threw
    pr_heap,          \* every Product instance constructed so far, oldest first
    pr_args,          \* <<>> or <<newCurrentPrice, newDiscountPercentage>> of the last updatePricing
    \* ---- Product.meetsAlertCriteria ----
    mc_pc,            \* "idle" | "called" | "done"
    mc_product,       \* the Product
    mc_criteria,      \* the criteria argument
    mc_result,        \* the boolean returned
    \* ---- MonitorProductDealsUseCase.execute, steps 3 and 4 ----
    mp_pc,            \* "idle" | "fetched" | "transformed" | "done"
    mp_alertConfig,   \* alertConfig
    mp_raw,           \* healthKartProducts
    mp_products,      \* products
    mp_matching,      \* matchingProducts
    \* ---- specifications and Product.getPricePerGramProtein ----
    pp_pc,            \* "idle" | "raw" | "extracted" | "done"
    pp_groups,        \* healthKartProduct.grps
    pp_price,         \* the Product's currentPrice
    pp_specifications,\* proteinPerServing and servingsPerContainer of the Product
    pp_result,        \* what getPricePerGramProtein returned
    \* ---- MonitorProductDealsUseCase.executeMultiCategory ----
    mm_pc,            \* "idle" | "running" | "returned" | "thrown"
    mm_telegram,      \* dependencies.telegramService is present
    mm_run,           \* per category: "fetching" | "sending" | "fulfilled" | "rejected"
    mm_results,       \* per category: the MonitoringResult of its run so far
    mm_aggregate,     \* <<>> or <<the aggregated MonitoringResult>>
    \* ---- POST /api/send-alert: the wrapped network calls of one run ----
    ht_pc,            \* "idle" | "attempt" | "sleep" | "failed" | "succeeded" | "responded"
    ht_stage,         \* "Fetch" | "Notify": the stage whose network call is running
    ht_maxRetries,    \* maxRetries of the factory's retry wrapper
    ht_attempt,       \* loop variable `attempt` of the wrapper's withRetry
    ht_outcomes,      \* per stage, what each attempt of its call did
    ht_error,         \* the error execute rejected with
    ht_status,        \* the HTTP status of the response, 0 before it
    \* ---- the wrapped sendMessage of one run, with its timeout race ----
    dl_pc,            \* "idle" | "attempt" | "sleep" | "resolved" | "rejected"
    dl_maxRetries,    \* maxRetries of the factory's retry wrapper
    dl_attempt,       \* loop variable `attempt` of withRetry
    dl_sends,         \* per call of the original sendMessage: "inflight" | "delivered" | "failed"
    dl_timedOut,      \* the calls whose timeout fired while they were in flight
    \* ---- HealthKartScheduler ----
    sc_isRunning,     \* this.isRunning
    sc_intervalId,    \* this.intervalId: <<>> for null, else <<timer id>>
    sc_timers,        \* the interval timers of the runtime that are active
    sc_nextId,        \* the id the next setInterval returns
    sc_triggers,      \* the number of triggerAlert calls started
    sc_pending,       \* the triggerAlert calls whose fetch has not settled
    sc_log            \* the calls made so far: "start" | "stop" | "tick"

retryVars == <<wr_pc, wr_maxRetries, wr_delayMs, wr_attempt, wr_currentDelay, wr_lastError,
               wr_calls, wr_sleeps, wr_result, wr_thrown, wr_outcomes>>

serverVars == <<sv_total, sv_perPage, sv_pages>>

pageVars == <<cl_maxRetries, pg_pc, pg_attempt, pg_lastError, pg_http, pg_delays,
              pg_response, pg_error>>

fetchAllVars == <<fa_pc, fa_currentPage, fa_totalPages, fa_allProducts,
                  fa_requested, fa_error>>

catalogVars == <<serverVars, pageVars, fetchAllVars>>

rateVars == <<clock, ticks, lastRequestTime, rl_pc, rl_wakeAt, rl_sentAt, rl_fetched,
              rl_issued>>

filterVars == <<ff_pc, ff_allProducts, ff_filter, ff_result>>

alertVars == <<sa_pc, sa_config, sa_stages, sa_succeeded, sa_calls, sa_rawProducts,
               sa_qualifyingDeals, sa_failure, sa_error, sa_result>>

runVars == <<rn_catalog>>

dealsVars == <<sd_pc, sd_input, sd_products, sd_messages, sd_returned>>

sendVars == <<tg_pc, tg_wrapped, tg_maxRetries, tg_attempt, tg_outerAttempt, tg_botCalls,
              tg_lastCode, tg_nonRetryableAt, tg_error>>

transformVars == <<tf_pc, tf_item, tf_result>>

batchVars == <<tb_pc, tb_input, tb_index, tb_products, tb_errors, tb_threw>>

productVars == <<pr_pc, pr_data, pr_product, pr_updates, pr_threw, pr_heap, pr_args>>

criteriaVars == <<mc_pc, mc_product, mc_criteria, mc_result>>

monitorVars == <<mp_pc, mp_alertConfig, mp_raw, mp_products, mp_matching>>

proteinVars == <<pp_pc, pp_groups, pp_price, pp_specifications, pp_result>>

multiVars == <<mm_pc, mm_telegram, mm_run, mm_results, mm_aggregate>>

httpVars == <<ht_pc, ht_stage, ht_maxRetries, ht_attempt, ht_outcomes, ht_error, ht_status>>

deliveryVars == <<dl_pc, dl_maxRetries, dl_attempt, dl_sends, dl_timedOut>>

schedulerVars == <<sc_isRunning, sc_intervalId, sc_timers, sc_nextId, sc_triggers, sc_pending, sc_log>>

vars == <<retryVars, catalogVars, rateVars, filterVars, alertVars, runVars, dealsVars, sendVars, transformVars, batchVars, productVars, criteriaVars, monitorVars, proteinVars, multiVars, httpVars, deliveryVars, schedulerVars>>

\* What a specification of one component leaves untouched.
nonRetryVars == <<catalogVars, rateVars, filterVars, alertVars, runVars, dealsVars, sendVars, transformVars, batchVars, productVars, criteriaVars, monitorVars, proteinVars, multiVars, httpVars, deliveryVars, schedulerVars>>

nonCatalogVars == <<retryVars, rateVars, filterVars, alertVars, runVars, dealsVars, sendVars, transformVars, batchVars, productVars, criteriaVars, monitorVars, proteinVars, multiVars, httpVars, deliveryVars, schedulerVars>>

nonRateVars == <<retryVars, catalogVars, filterVars, alertVars, runVars, dealsVars, sendVars, transformVars, batchVars, productVars, criteriaVars, monitorVars, proteinVars, multiVars, httpVars, deliveryVars, schedulerVars>>

nonFilterVars == <<retryVars, catalogVars, rateVars, alertVars, runVars, dealsVars, sendVars, transformVars, batchVars, productVars, criteriaVars, monitorVars, proteinVars, multiVars, httpVars, deliveryVars, schedulerVars>>

nonAlertVars == <<retryVars, catalogVars, rateVars, filterVars, runVars, dealsVars, sendVars, transformVars, batchVars, productVars, criteriaVars, monitorVars, proteinVars, multiVars, httpVars, deliveryVars, schedulerVars>>

nonDealsVars == <<retryVars, catalogVars, rateVars, filterVars, alertVars, runVars, sendVars, transformVars, batchVars, productVars, criteriaVars, monitorVars, proteinVars, multiVars, httpVars, deliveryVars, schedulerVars>>

nonSendVars == <<retryVars, catalogVars, rateVars, filterVars, alertVars, runVars, dealsVars, transformVars, batchVars, productVars, criteriaVars, monitorVars, proteinVars, multiVars, httpVars, deliveryVars, schedulerVars>>

nonTransformVars == <<retryVars, catalogVars, rateVars, filterVars, alertVars, runVars, dealsVars, sendVars, batchVars, productVars, criteriaVars, monitorVars, proteinVars, multiVars, httpVars, deliveryVars, schedulerVars>>

nonBatchVars == <<retryVars, catalogVars, rateVars, filterVars, alertVars, runVars, dealsVars, sendVars, transformVars, productVars, criteriaVars, monitorVars, proteinVars, multiVars, httpVars, deliveryVars, schedulerVars>>

nonProductVars == <<retryVars, catalogVars, rateVars, filterVars, alertVars, runVars, dealsVars, sendVars, transformVars, batchVars, criteriaVars, monitorVars, proteinVars, multiVars, httpVars, deliveryVars, schedulerVars>>

nonCriteriaVars == <<retryVars, catalogVars, rateVars, filterVars, alertVars, runVars, dealsVars, sendVars, transformVars, batchVars, productVars, monitorVars, proteinVars, multiVars, httpVars, deliveryVars, schedulerVars>>

nonMonitorVars == <<retryVars, catalogVars, rateVars, filterVars, alertVars, runVars, dealsVars, sendVars, transformVars, batchVars, productVars, criteriaVars, proteinVars, multiVars, httpVars, deliveryVars, schedulerVars>>

nonProteinVars == <<retryVars, catalogVars, rateVars, filterVars, alertVars, runVars, dealsVars, sendVars, transformVars, batchVars, productVars, criteriaVars, monitorVars, multiVars, httpVars, deliveryVars, schedulerVars>>

nonMultiVars == <<retryVars, catalogVars, rateVars, filterVars, alertVars, runVars, dealsVars, sendVars, transformVars, batchVars, productVars, criteriaVars, monitorVars, proteinVars, httpVars, deliveryVars, schedulerVars>>

nonHttpVars == <<retryVars, catalogVars, rateVars, filterVars, alertVars, runVars, dealsVars, sendVars, transformVars, batchVars, productVars, criteriaVars, monitorVars, proteinVars, multiVars, deliveryVars, schedulerVars>>

nonDeliveryVars == <<retryVars, catalogVars, rateVars, filterVars, alertVars, runVars, dealsVars, sendVars, transformVars, batchVars, productVars, criteriaVars, monitorVars, proteinVars, multiVars, httpVars, schedulerVars>>

nonSchedulerVars == <<retryVars, catalogVars, rateVars, filterVars, alertVars, runVars, dealsVars, sendVars, transformVars, batchVars, productVars, criteriaVars, monitorVars, proteinVars, multiVars, httpVars, deliveryVars>>

(***************************************************************************)
(* Errors.  An error value carries its class (kind), the statusCode field  *)
(* of the classes that have one (NoStatus when undefined), `at`, the       *)
(* number of the invocation that raised it, and for a wrapping error the   *)
(* attempt count and the wrapped error (cause, a sequence of length <= 1). *)
(***************************************************************************)
Err(kind, status, at) ==
    [kind |-> kind, statusCode |-> status, at |-> at, attempts |-> 0, cause |-> <<>>]

\* new RetryExhaustedError(message, attempts, lastError)
RetryExhaustedError(attempts, lastError) ==
    [kind |-> "RetryExhaustedError", statusCode |-> NoStatus, at |-> 0,
     attempts |-> attempts, cause |-> <<lastError>>]

NoError == Err("none", NoStatus, 0)

NoValue == "none"

Values == {"v1", "v2"}

\* The error shapes an operation passed to withRetry can reject with.
OperationErrorShapes ==
    {<<"ApiTimeoutError", NoStatus>>,
     <<"ProductFetchError", NoStatus>>,
     <<"ProductFetchError", 404>>,
     <<"ProductFetchError", 429>>,
     <<"ProductFetchError", 503>>,
     <<"TelegramServiceError", NoStatus>>,
     <<"RateLimitError", NoStatus>>,
     <<"NonError", NoStatus>>}

\* `error instanceof Error ? error : new Error(String(error))`
toError(e) == IF e.kind = "NonError" THEN Err("Error", NoStatus, e.at) ELSE e

\* Mutant of isNonRetryableError: every failure is retried.
isNonRetryableError_alwaysRetry(e) == FALSE

isNonRetryableError(e) ==
    IF e.kind = "ApiTimeoutError" THEN FALSE
    ELSE IF e.kind = "ProductFetchError"
         THEN (IF e.statusCode # NoStatus
               THEN e.statusCode >= 400 /\ e.statusCode < 500
               ELSE FALSE)
    ELSE IF e.kind = "TelegramServiceError" THEN FALSE
    ELSE IF e.kind = "RateLimitError" THEN FALSE
    ELSE FALSE

\* Mutant of the loop increment: `attempt++` is lost.
WrNextAttempt_stuck(attempt) == attempt

\* `attempt++` of the for loop.
WrNextAttempt(attempt) == attempt + 1

\* `attempt === maxRetries`: the attempt that just failed was the last one.
WrLastAttempt(attempt, maxRetries) == attempt = maxRetries

\* Mutant of the success path: the loop goes on after fn resolved.
WrAfterSuccess_continue(attempt, maxRetries) ==
    IF attempt < maxRetries THEN "start" ELSE "returned"

\* `return result`: withRetry settles as soon as fn resolves.
WrAfterSuccess(attempt, maxRetries) == "returned"

\* Mutant of the final throw: the first failure is reported, not the last.
WrFinalThrow_first(lastError, outcomes) == toError(outcomes[1].error)

\* `throw lastError || new Error('Unknown error during retry operation')`
WrFinalThrow(lastError, outcomes) ==
    IF lastError # NoError THEN lastError ELSE Err("Error", NoStatus, 0)

Ok(v) == [tag |-> "ok", value |-> v, error |-> NoError]
Failed(e) == [tag |-> "err", value |-> NoValue, error |-> e]

\* Values of config.delayMs: the two configured ones and a long one.
RetryDelays == {TelegramRetryDelay, CatalogRetryDelay, 16 * TelegramRetryDelay}

RetryIdle ==
    /\ wr_pc = "idle"
    /\ wr_maxRetries = 0
    /\ wr_delayMs = 0
    /\ wr_attempt = 0
    /\ wr_currentDelay = 0
    /\ wr_lastError = NoError
    /\ wr_calls = 0
    /\ wr_sleeps = <<>>
    /\ wr_result = NoValue
    /\ wr_thrown = NoError
    /\ wr_outcomes = <<>>

\* withRetry(fn, {maxRetries, delayMs, backoffMultiplier}) has been called.
RetryInit ==
    /\ wr_pc = "start"
    /\ wr_maxRetries \in 0..MaxRetriesBound
    /\ wr_delayMs \in RetryDelays
    /\ wr_attempt = 0
    /\ wr_currentDelay = wr_delayMs
    /\ wr_lastError = NoError
    /\ wr_calls = 0
    /\ wr_sleeps = <<>>
    /\ wr_result = NoValue
    /\ wr_thrown = NoError
    /\ wr_outcomes = <<>>

\* Loop head: while `attempt <= maxRetries` invoke fn and await it; otherwise
\* fall through to the throw after the loop.
WrLoopHead ==
    /\ wr_pc = "start"
    /\ IF wr_attempt <= wr_maxRetries
       THEN /\ wr_calls' = wr_calls + 1
            /\ wr_pc' = "awaiting"
            /\ UNCHANGED <<wr_thrown>>
       ELSE /\ wr_thrown' = WrFinalThrow(wr_lastError, wr_outcomes)
            /\ wr_pc' = "thrown"
            /\ UNCHANGED <<wr_calls>>
    /\ UNCHANGED <<wr_maxRetries, wr_delayMs, wr_attempt, wr_currentDelay, wr_lastError,
                   wr_sleeps, wr_result, wr_outcomes>>
    /\ UNCHANGED nonRetryVars

\* fn() resolved.
WrFnResolves ==
    /\ wr_pc = "awaiting"
    /\ \E v \in Values :
         /\ wr_outcomes' = Append(wr_outcomes, Ok(v))
         /\ wr_pc' = WrAfterSuccess(wr_attempt, wr_maxRetries)
         /\ wr_result' = IF wr_pc' = "returned" THEN v ELSE wr_result
         /\ wr_attempt' = IF wr_pc' = "returned" THEN wr_attempt
                          ELSE WrNextAttempt(wr_attempt)
    /\ UNCHANGED <<wr_maxRetries, wr_delayMs, wr_currentDelay, wr_lastError, wr_calls,
                   wr_sleeps, wr_thrown>>
    /\ UNCHANGED nonRetryVars

\* fn() rejected: the catch block.
WrFnRejects ==
    /\ wr_pc = "awaiting"
    /\ \E s \in OperationErrorShapes :
         LET error == Err(s[1], s[2], wr_calls)
             last  == toError(error)
         IN /\ wr_outcomes' = Append(wr_outcomes, Failed(error))
            /\ wr_lastError' = last
            /\ IF isNonRetryableError(error)
               THEN /\ wr_thrown' = last
                    /\ wr_pc' = "thrown"
                    /\ UNCHANGED <<wr_sleeps>>
               ELSE IF WrLastAttempt(wr_attempt, wr_maxRetries)
               THEN \* break, then the throw after the loop
                    /\ wr_thrown' = WrFinalThrow(last, wr_outcomes')
                    /\ wr_pc' = "thrown"
                    /\ UNCHANGED <<wr_sleeps>>
               ELSE /\ wr_sleeps' = Append(wr_sleeps, wr_currentDelay)
                    /\ wr_pc' = "sleep"
                    /\ UNCHANGED <<wr_thrown>>
    /\ UNCHANGED <<wr_maxRetries, wr_delayMs, wr_attempt, wr_currentDelay, wr_calls, wr_result>>
    /\ UNCHANGED nonRetryVars

\* sleep(currentDelay) resolved: `currentDelay *= backoffMultiplier`, `attempt++`.
WrWake ==
    /\ wr_pc = "sleep"
    /\ wr_currentDelay' = wr_currentDelay * BackoffMultiplier
    /\ wr_attempt' = WrNextAttempt(wr_attempt)
    /\ wr_pc' = "start"
    /\ UNCHANGED <<wr_maxRetries, wr_delayMs, wr_lastError, wr_calls, wr_sleeps, wr_result,
                   wr_thrown, wr_outcomes>>
    /\ UNCHANGED nonRetryVars

RetryNext ==
    \/ WrLoopHead
    \/ WrFnResolves
    \/ WrFnRejects
    \/ WrWake

(***************************************************************************)
(* The catalog client: one page fetch (fetchCategoryProducts, which runs   *)
(* its HTTP call through executeWithRetry behind the axios interceptors)   *)
(* and the pagination loop (fetchAllCategoryProducts).  The wait of        *)
(* enforceRateLimit that precedes each page fetch is modelled with the     *)
(* clock in the rate-limit specification.                                  *)
(***************************************************************************)
AxiosError(status, at) == Err("AxiosError", status, at)

\* new HealthKartApiError(message, {cause, statusCode})
HealthKartApiError(status, causes) ==
    [kind |-> "HealthKartApiError", statusCode |-> status, at |-> 0,
     attempts |-> 0, cause |-> causes]

\* new DataParsingError(message, {...})
DataParsingError == Err("DataParsingError", NoStatus, 0)

\* How one HTTP attempt can fail inside axios: no response (NoStatus) or a
\* response with an error status; and a failure that is not an AxiosError.
HttpFailureStatuses == {NoStatus, 400, 404, 429, 500, 503}

HttpFailures(at) ==
    {AxiosError(st, at) : st \in HttpFailureStatuses} \cup {Err("Error", NoStatus, at)}

\* The envelopes a 2xx response can carry.
Envelopes == {"valid", "missingResults", "exception", "variantsNotArray"}

\* axios.isAxiosError(error)
isAxiosError(e) == e.kind = "AxiosError"

\* The response interceptor's rejection handler.
responseInterceptor(e) ==
    IF isAxiosError(e) THEN HealthKartApiError(e.statusCode, <<e>>) ELSE e

shouldRetry(e) ==
    IF isAxiosError(e)
    THEN IF e.statusCode = NoStatus THEN TRUE
         ELSE e.statusCode >= 500 \/ e.statusCode = 429
    ELSE FALSE

Min(a, b) == IF a <= b THEN a ELSE b

RECURSIVE Pow2(_)
Pow2(n) == IF n <= 0 THEN 1 ELSE 2 * Pow2(n - 1)

\* Math.random() * 1000, in whole milliseconds.
JitterValues == {0, 999}

calculateRetryDelay(attempt, baseDelay, jitter) ==
    Min(baseDelay * Pow2(attempt - 1) + jitter, MaxRetryDelayMs)

\* The catch block of fetchCategoryProducts.
PageFetchError(e) ==
    IF e.kind \in {"HealthKartApiError", "RetryExhaustedError"}
    THEN e
    ELSE HealthKartApiError(NoStatus, <<e>>)

\* validateApiResponse: the error it throws, or NoError.
validateApiResponse(envelope) ==
    IF envelope = "missingResults" THEN DataParsingError
    ELSE IF envelope = "exception" THEN HealthKartApiError(NoStatus, <<>>)
    ELSE IF envelope = "variantsNotArray" THEN DataParsingError
    ELSE NoError

\* The items of page pageNo when the server puts n items on it.
PageItems(pageNo, n) == [i \in 1..n |-> <<pageNo, i>>]

NoResponse == [total |-> 0, perPage |-> 0, pageNo |-> 0, variants |-> <<>>]

HttpOk(envelope) == [tag |-> "ok", envelope |-> envelope, error |-> NoError]
HttpFailed(e) == [tag |-> "err", envelope |-> "none", error |-> e]

\* Mutant of the page count: the total is divided without rounding up.
TotalPages_floor(totalVariants, perPage) == totalVariants \div perPage

\* Math.ceil(totalVariants / perPage)
TotalPages(totalVariants, perPage) == (totalVariants + perPage - 1) \div perPage

CatalogIdle ==
    /\ sv_total = 0
    /\ sv_perPage = 0
    /\ sv_pages = <<>>
    /\ cl_maxRetries = 0
    /\ pg_pc = "idle"
    /\ pg_attempt = 0
    /\ pg_lastError = NoError
    /\ pg_http = <<>>
    /\ pg_delays = <<>>
    /\ pg_response = NoResponse
    /\ pg_error = NoError
    /\ fa_pc = "idle"
    /\ fa_currentPage = 0
    /\ fa_totalPages = 0
    /\ fa_allProducts = <<>>
    /\ fa_requested = <<>>
    /\ fa_error = NoError

\* A client constructed with maxRetries, and fetchAllCategoryProducts called on
\* it; the server reports the same total and page size throughout.
CatalogInit ==
    /\ sv_total \in 0..MaxTotal
    /\ sv_perPage \in 1..MaxPerPage
    /\ sv_pages = <<>>
    /\ cl_maxRetries \in 0..MaxRetriesBound
    /\ pg_pc = "idle"
    /\ pg_attempt = 0
    /\ pg_lastError = NoError
    /\ pg_http = <<>>
    /\ pg_delays = <<>>
    /\ pg_response = NoResponse
    /\ pg_error = NoError
    /\ fa_pc = "loop"
    /\ fa_currentPage = 1
    /\ fa_totalPages = 1
    /\ fa_allProducts = <<>>
    /\ fa_requested = <<>>
    /\ fa_error = NoError

\* Loop body of fetchAllCategoryProducts: fetchCategoryProducts(currentPage)
\* is called, which enters executeWithRetry with attempt = 1.
FaCallPage ==
    /\ fa_pc = "loop"
    /\ fa_requested' = Append(fa_requested, fa_currentPage)
    /\ fa_pc' = "paging"
    /\ pg_pc' = "start"
    /\ pg_attempt' = 1
    /\ pg_lastError' = NoError
    /\ pg_http' = <<>>
    /\ pg_delays' = <<>>
    /\ pg_response' = NoResponse
    /\ pg_error' = NoError
    /\ UNCHANGED <<serverVars, cl_maxRetries, fa_currentPage, fa_totalPages,
                   fa_allProducts, fa_error>>
    /\ UNCHANGED nonCatalogVars

\* Loop head of executeWithRetry, entered from the call or after the delay
\* that follows a failed attempt (`attempt++`): `await requestFn()`.
PgIssueRequest ==
    /\ pg_pc \in {"start", "delay"}
    /\ LET attempt == IF pg_pc = "delay" THEN pg_attempt + 1 ELSE pg_attempt
       IN /\ pg_attempt' = attempt
          /\ IF attempt <= cl_maxRetries + 1
             THEN /\ pg_pc' = "awaiting"
                  /\ UNCHANGED <<pg_error>>
             ELSE /\ pg_pc' = "rejected"
                  /\ pg_error' = PageFetchError(
                        RetryExhaustedError(cl_maxRetries + 1, pg_lastError))
    /\ UNCHANGED <<serverVars, cl_maxRetries, pg_lastError, pg_http, pg_delays,
                   pg_response, fetchAllVars>>
    /\ UNCHANGED nonCatalogVars

\* The HTTP call resolved with a 2xx response: validateApiResponse, then the
\* page fetch returns response.data or rejects.
PgHttpResolves ==
    /\ pg_pc = "awaiting"
    /\ \E envelope \in Envelopes, n \in 0..Min(sv_perPage, sv_total) :
         LET invalid == validateApiResponse(envelope)
             pageNo  == fa_requested[Len(fa_requested)]
         IN /\ pg_http' = Append(pg_http, HttpOk(envelope))
            /\ IF invalid = NoError
               THEN /\ pg_pc' = "resolved"
                    /\ pg_response' = [total |-> sv_total, perPage |-> sv_perPage,
                                       pageNo |-> pageNo,
                                       variants |-> PageItems(pageNo, n)]
                    /\ sv_pages' = Append(sv_pages, PageItems(pageNo, n))
                    /\ UNCHANGED <<pg_error>>
               ELSE /\ pg_pc' = "rejected"
                    /\ pg_error' = PageFetchError(invalid)
                    /\ UNCHANGED <<pg_response, sv_pages>>
    /\ UNCHANGED <<sv_total, sv_perPage, cl_maxRetries, pg_attempt, pg_lastError,
                   pg_delays, fetchAllVars>>
    /\ UNCHANGED nonCatalogVars

\* The HTTP call rejected: the response interceptor, then the catch block of
\* executeWithRetry.
PgHttpRejects ==
    /\ pg_pc = "awaiting"
    /\ \E raw \in HttpFailures(pg_attempt), jitter \in JitterValues :
         LET error == responseInterceptor(raw)
         IN /\ pg_http' = Append(pg_http, HttpFailed(raw))
            /\ pg_lastError' = error
            /\ IF pg_attempt = cl_maxRetries + 1
               THEN \* break, then the throw after the loop
                    /\ pg_pc' = "rejected"
                    /\ pg_error' = PageFetchError(
                          RetryExhaustedError(cl_maxRetries + 1, error))
                    /\ UNCHANGED <<pg_delays>>
               ELSE IF ~shouldRetry(error)
               THEN /\ pg_pc' = "rejected"
                    /\ pg_error' = PageFetchError(error)
                    /\ UNCHANGED <<pg_delays>>
               ELSE /\ pg_pc' = "delay"
                    /\ pg_delays' = Append(pg_delays,
                          calculateRetryDelay(pg_attempt, CatalogRetryDelay, jitter))
                    /\ UNCHANGED <<pg_error>>
    /\ UNCHANGED <<serverVars, cl_maxRetries, pg_attempt, pg_response, fetchAllVars>>
    /\ UNCHANGED nonCatalogVars

\* Mutant of FaPageSettled: an empty page does not end the loop.
FaPageSettled_ignoresEmptyPage ==
    /\ fa_pc = "paging"
    /\ pg_pc \in {"resolved", "rejected"}
    /\ IF pg_pc = "rejected"
       THEN /\ fa_pc' = "rejected"
            /\ fa_error' = pg_error
            /\ UNCHANGED <<fa_currentPage, fa_totalPages, fa_allProducts>>
       ELSE /\ fa_allProducts' = fa_allProducts \o pg_response.variants
            /\ fa_totalPages' = IF Len(pg_response.variants) = 0 THEN fa_totalPages
                                ELSE TotalPages(pg_response.total, pg_response.perPage)
            /\ fa_currentPage' = fa_currentPage + 1
            /\ fa_pc' = IF fa_currentPage' <= fa_totalPages' THEN "loop" ELSE "returned"
            /\ UNCHANGED <<fa_error>>
    /\ UNCHANGED <<serverVars, pageVars, fa_requested>>
    /\ UNCHANGED nonCatalogVars

\* fetchCategoryProducts settled: the rest of the loop body of
\* fetchAllCategoryProducts, up to the next page fetch or the return.
FaPageSettled ==
    /\ fa_pc = "paging"
    /\ pg_pc \in {"resolved", "rejected"}
    /\ IF pg_pc = "rejected"
       THEN /\ fa_pc' = "rejected"
            /\ fa_error' = pg_error
            /\ UNCHANGED <<fa_currentPage, fa_totalPages, fa_allProducts>>
       ELSE IF Len(pg_response.variants) = 0
       THEN \* break
            /\ fa_pc' = "returned"
            /\ UNCHANGED <<fa_currentPage, fa_totalPages, fa_allProducts, fa_error>>
       ELSE /\ fa_allProducts' = fa_allProducts \o pg_response.variants
            /\ fa_totalPages' = TotalPages(pg_response.total, pg_response.perPage)
            /\ fa_currentPage' = fa_currentPage + 1
            /\ fa_pc' = IF fa_currentPage' <= fa_totalPages' THEN "loop" ELSE "returned"
            /\ UNCHANGED <<fa_error>>
    /\ UNCHANGED <<serverVars, pageVars, fa_requested>>
    /\ UNCHANGED nonCatalogVars

CatalogNext ==
    \/ FaCallPage
    \/ PgIssueRequest
    \/ PgHttpResolves
    \/ PgHttpRejects
    \/ FaPageSettled

(***************************************************************************)
(* Rate limiting.  executeMultiCategory starts one run per category on the *)
(* same client; every page fetch of every run first awaits                 *)
(* enforceRateLimit, which reads and writes this.lastRequestTime around an *)
(* await.  Time is the value of Date.now().                                *)
(***************************************************************************)
Categories == 1..NumCategories

\* How far the clock moves between two events.
TickSteps == {RequestDelayMs \div 2, RequestDelayMs}

RateIdle ==
    /\ clock = 0
    /\ ticks = 0
    /\ lastRequestTime = 0
    /\ rl_pc = [c \in Categories |-> "done"]
    /\ rl_wakeAt = [c \in Categories |-> 0]
    /\ rl_sentAt = [c \in Categories |-> 0]
    /\ rl_fetched = [c \in Categories |-> 0]
    /\ rl_issued = <<>>

\* A fresh client (lastRequestTime = 0) at a wall-clock time far from 0, and
\* every category run about to fetch its first page.
RateInit ==
    /\ clock = RequestDelayMs
    /\ ticks = 0
    /\ lastRequestTime = 0
    /\ rl_pc = [c \in Categories |-> "ready"]
    /\ rl_wakeAt = [c \in Categories |-> 0]
    /\ rl_sentAt = [c \in Categories |-> 0]
    /\ rl_fetched = [c \in Categories |-> 0]
    /\ rl_issued = <<>>

\* enforceRateLimit up to its await: either the delay is started, or
\* lastRequestTime is set and the page request goes out.
RlEnter(c) ==
    /\ rl_pc[c] = "ready"
    /\ LET now == clock
           timeSinceLastRequest == now - lastRequestTime
       IN IF timeSinceLastRequest < RequestDelayMs
          THEN /\ rl_wakeAt' = [rl_wakeAt EXCEPT
                                  ![c] = now + (RequestDelayMs - timeSinceLastRequest)]
               /\ rl_pc' = [rl_pc EXCEPT ![c] = "waiting"]
               /\ UNCHANGED <<lastRequestTime, rl_issued, rl_sentAt>>
          ELSE /\ lastRequestTime' = clock
               /\ rl_issued' = Append(rl_issued, clock)
               /\ rl_sentAt' = [rl_sentAt EXCEPT ![c] = clock]
               /\ rl_pc' = [rl_pc EXCEPT ![c] = "inflight"]
               /\ UNCHANGED <<rl_wakeAt>>
    /\ UNCHANGED <<clock, ticks, rl_fetched>>
    /\ UNCHANGED nonRateVars

\* The delay() timer fired: `this.lastRequestTime = Date.now()`, and the page
\* request goes out.
RlWake(c) ==
    /\ rl_pc[c] = "waiting"
    /\ clock >= rl_wakeAt[c]
    /\ lastRequestTime' = clock
    /\ rl_issued' = Append(rl_issued, clock)
    /\ rl_sentAt' = [rl_sentAt EXCEPT ![c] = clock]
    /\ rl_pc' = [rl_pc EXCEPT ![c] = "inflight"]
    /\ UNCHANGED <<clock, ticks, rl_wakeAt, rl_fetched>>
    /\ UNCHANGED nonRateVars

\* The page arrived, some time after the request went out; the run goes on
\* to its next page or ends.
RlResponse(c) ==
    /\ rl_pc[c] = "inflight"
    /\ clock > rl_sentAt[c]
    /\ rl_fetched' = [rl_fetched EXCEPT ![c] = @ + 1]
    /\ rl_pc' = [rl_pc EXCEPT ![c] =
                    IF rl_fetched'[c] < PagesPerCategory THEN "ready" ELSE "done"]
    /\ UNCHANGED <<clock, ticks, lastRequestTime, rl_wakeAt, rl_sentAt, rl_issued>>
    /\ UNCHANGED nonRateVars

\* Time passes; a timer that is due fires before time passes further.
Tick ==
    /\ ticks < MaxTicks
    /\ \A c \in Categories : rl_pc[c] = "waiting" => clock < rl_wakeAt[c]
    /\ \E d \in TickSteps :
         /\ \A c \in Categories : rl_pc[c] = "waiting" => clock + d <= rl_wakeAt[c]
         /\ clock' = clock + d
    /\ ticks' = ticks + 1
    /\ UNCHANGED <<lastRequestTime, rl_pc, rl_wakeAt, rl_sentAt, rl_fetched, rl_issued>>
    /\ UNCHANGED nonRateVars

RateNext ==
    \/ \E c \in Categories : RlEnter(c)
    \/ \E c \in Categories : RlWake(c)
    \/ \E c \in Categories : RlResponse(c)
    \/ Tick

(***************************************************************************)
(* Filtering of raw catalog items (applyProductFilter).  Strings are       *)
(* sequences of characters; an optional field of the filter is a sequence  *)
(* of length 0 (not supplied) or 1 (supplied).                             *)
(***************************************************************************)
UpperCase == <<"A", "B", "C", "D", "E", "F", "G", "H", "I", "J", "K", "L", "M",
               "N", "O", "P", "Q", "R", "S", "T", "U", "V", "W", "X", "Y", "Z">>

LowerCase == <<"a", "b", "c", "d", "e", "f", "g", "h", "i", "j", "k", "l", "m",
               "n", "o", "p", "q", "r", "s", "t", "u", "v", "w", "x", "y", "z">>

lowerChar(c) ==
    IF \E i \in DOMAIN UpperCase : UpperCase[i] = c
    THEN LowerCase[CHOOSE i \in DOMAIN UpperCase : UpperCase[i] = c]
    ELSE c

\* String.prototype.toLowerCase
toLowerCase(str) == [i \in 1..Len(str) |-> lowerChar(str[i])]

\* String.prototype.includes
includes(str, sub) ==
    \E i \in 0..(Len(str) - Len(sub)) : SubSeq(str, i + 1, i + Len(sub)) = sub

\* Truthiness of an optional number: undefined and 0 are falsy.
truthy(opt) == opt # <<>> /\ opt[1] # 0

\* `product.brName.toLowerCase() === brand.toLowerCase()`
brandMatches(brName, brand) == toLowerCase(brName) = toLowerCase(brand)

S_flavour == <<"f", "l", "a", "v", "o", "u", "r">>
S_gen_sn_flv == <<"g", "e", "n", "-", "s", "n", "-", "f", "l", "v">>
S_Flavor_base == <<"F", "l", "a", "v", "o", "r", "-", "b", "a", "s", "e">>

\* Whether one attribute names a flavor.
isFlavorAttribute(attribute) ==
    \/ attribute.nm = S_gen_sn_flv
    \/ attribute.nm = S_Flavor_base
    \/ includes(toLowerCase(attribute.dis_nm), S_flavour)

checkProductFlavor(product, flavors) ==
    \E g \in DOMAIN product.grps :
       \E a \in DOMAIN product.grps[g] :
          /\ isFlavorAttribute(product.grps[g][a])
          /\ \E f \in DOMAIN flavors :
                includes(toLowerCase(product.grps[g][a].val), toLowerCase(flavors[f]))

\* The callback of products.filter(...) in applyProductFilter.
keepProduct(product, filter) ==
    IF product.discount < filter.minDiscount THEN FALSE
    ELSE IF truthy(filter.maxPrice) /\ product.offer_pr > filter.maxPrice[1] THEN FALSE
    ELSE IF truthy(filter.minRating) /\ product.rating < filter.minRating[1] THEN FALSE
    ELSE IF filter.inStockOnly /\ product.oos THEN FALSE
    ELSE IF truthy(filter.minReviews) /\ product.nrvw < filter.minReviews[1] THEN FALSE
    ELSE IF Len(filter.brands) > 0
            /\ ~\E b \in DOMAIN filter.brands : brandMatches(product.brName, filter.brands[b])
         THEN FALSE
    ELSE IF Len(filter.categories) > 0
            /\ ~\E c \in DOMAIN filter.categories :
                   includes(toLowerCase(product.catName), toLowerCase(filter.categories[c]))
         THEN FALSE
    ELSE IF Len(filter.flavors) > 0 /\ ~checkProductFlavor(product, filter.flavors)
         THEN FALSE
    ELSE TRUE

applyProductFilter(products, filter) ==
    SelectSeq(products, LAMBDA product : keepProduct(product, filter))

\* Sample strings.
S_MB == <<"M", "B">>
S_mb == <<"m", "b">>
S_mbx == <<"m", "b", "x">>
S_Whey == <<"W", "h", "e", "y">>
S_whey == <<"w", "h", "e", "y">>
S_Bars == <<"B", "a", "r", "s">>
S_Flavour == <<"F", "l", "a", "v", "o", "u", "r">>
S_Weight == <<"W", "e", "i", "g", "h", "t">>
S_Choco == <<"C", "h", "o", "c", "o">>
S_choc == <<"c", "h", "o", "c">>
S_Mango == <<"M", "a", "n", "g", "o">>
S_attr == <<"a", "t", "t", "r">>
S_url == <<"/", "s", "v", "/", "w">>

Attribute(nm, dis_nm, val) == [nm |-> nm, dis_nm |-> dis_nm, val |-> val]

\* A raw item that passes every sample filter, and items that differ from it
\* in one field each.
GoodItem ==
    [id |-> 1, nm |-> S_Whey, urlFragment |-> S_url, mrp |-> 40, ordrEnbld |-> TRUE,
     discount |-> 50, offer_pr |-> 5, rating |-> 4, nrvw |-> 10, oos |-> FALSE,
     brName |-> S_MB, catName |-> S_Whey,
     grps |-> << <<Attribute(S_attr, S_Weight, S_choc),
                   Attribute(S_attr, S_Flavour, S_Choco)>> >>]

SampleItems ==
    {GoodItem,
     [GoodItem EXCEPT !.discount = 30],
     [GoodItem EXCEPT !.offer_pr = 20],
     [GoodItem EXCEPT !.rating = 2],
     [GoodItem EXCEPT !.nrvw = 0],
     [GoodItem EXCEPT !.oos = TRUE],
     [GoodItem EXCEPT !.brName = S_mbx],
     [GoodItem EXCEPT !.catName = S_Bars],
     [GoodItem EXCEPT !.grps = << <<Attribute(S_gen_sn_flv, S_attr, S_Mango)>> >>],
     [GoodItem EXCEPT !.grps = << <<Attribute(S_attr, S_Weight, S_Choco)>> >>]}

OptionalNumber(values) == {<<>>} \cup {<<v>> : v \in values}

SampleFilters ==
    [minDiscount : {40},
     maxPrice : OptionalNumber({0, 10}),
     minRating : OptionalNumber({3}),
     minReviews : OptionalNumber({5}),
     inStockOnly : BOOLEAN,
     brands : {<<>>, <<S_mb>>},
     categories : {<<>>, <<S_whey>>},
     flavors : {<<>>, <<S_choc>>}]

ItemLists == UNION {[1..n -> SampleItems] : n \in 0..MaxItems}

NoFilter ==
    [minDiscount |-> 0, maxPrice |-> <<>>, minRating |-> <<>>, minReviews |-> <<>>,
     inStockOnly |-> FALSE, brands |-> <<>>, categories |-> <<>>, flavors |-> <<>>]

FilterIdle ==
    /\ ff_pc = "idle"
    /\ ff_allProducts = <<>>
    /\ ff_filter = NoFilter
    /\ ff_result = <<>>

\* fetchFilteredProducts(categoryCode, filter) was called and
\* fetchAllCategoryProducts has resolved with allProducts.
FilterInit ==
    /\ ff_pc = "called"
    /\ ff_allProducts \in ItemLists
    /\ ff_filter \in SampleFilters
    /\ ff_result = <<>>

FfReturn ==
    /\ ff_pc = "called"
    /\ ff_result' = applyProductFilter(ff_allProducts, ff_filter)
    /\ ff_pc' = "returned"
    /\ UNCHANGED <<ff_allProducts, ff_filter>>
    /\ UNCHANGED nonFilterVars

FilterNext == FfReturn

(***************************************************************************)
(* Transformation of raw catalog items into Products                       *)
(* (HealthKartTransformService, Product.create).  A number is an integer   *)
(* or NaN; prices are counted in thousandths of a rupee, so that rounding  *)
(* to two decimals is rounding to a multiple of ten.  A call that can      *)
(* throw yields Returned(value) or Thrown(error).                          *)
(***************************************************************************)
isNaN(x) == x = NaN

\* The comparisons of JavaScript numbers: false when an operand is NaN.
jsLess(a, b) == ~isNaN(a) /\ ~isNaN(b) /\ a < b

jsGreater(a, b) == jsLess(b, a)

jsLessEq(a, b) == ~isNaN(a) /\ ~isNaN(b) /\ a <= b

jsGreaterEq(a, b) == jsLessEq(b, a)

Max(a, b) == IF a >= b THEN a ELSE b

RECURSIVE trimStart(_)
trimStart(str) ==
    IF str # <<>> /\ Head(str) = " " THEN trimStart(Tail(str)) ELSE str

RECURSIVE trimEnd(_)
trimEnd(str) ==
    IF str # <<>> /\ str[Len(str)] = " " THEN trimEnd(SubSeq(str, 1, Len(str) - 1)) ELSE str

\* String.prototype.trim
trim(str) == trimEnd(trimStart(str))

Digits == <<"0", "1", "2", "3", "4", "5", "6", "7", "8", "9">>

\* String(n) for a whole number n >= 0
RECURSIVE String(_)
String(n) ==
    IF n < 10 THEN <<Digits[n + 1]>>
    ELSE String(n \div 10) \o <<Digits[(n % 10) + 1]>>

S_site == <<"h", "t", "t", "p", "s", ":", "/", "/", "w", "w", "w", ".",
            "h", "e", "a", "l", "t", "h", "k", "a", "r", "t", ".", "c", "o", "m">>

NoProduct ==
    [id |-> <<>>, name |-> <<>>, brand |-> <<>>, category |-> <<>>,
     originalPrice |-> 0, currentPrice |-> 0, discountPercentage |-> 0,
     rating |-> 0, reviewCount |-> 0, isInStock |-> FALSE, url |-> <<>>]

Returned(value) == [threw |-> FALSE, value |-> value, error |-> NoError]

Thrown(error) == [threw |-> TRUE, value |-> NoProduct, error |-> error]

\* The Error validateHealthKartProduct throws, or NoError.
validateHealthKartProduct(product) ==
    IF isNaN(product.id) \/ product.id <= 0 THEN Err("Error", NoStatus, 0)
    ELSE IF trim(product.nm) = <<>> THEN Err("Error", NoStatus, 0)
    ELSE IF trim(product.brName) = <<>> THEN Err("Error", NoStatus, 0)
    ELSE IF trim(product.urlFragment) = <<>> THEN Err("Error", NoStatus, 0)
    ELSE NoError

validatePriceThrows(price) == isNaN(price) \/ price < 0

\* Math.round(price * 100) / 100 on thousandths
validatePrice(price) == ((price + 5) \div 10) * 10

\* Mutant of validatePercentage: no clamping.
validatePercentage_unclamped(percentage) == IF isNaN(percentage) THEN 0 ELSE percentage

validatePercentage(percentage) ==
    IF isNaN(percentage) THEN 0 ELSE Max(0, Min(MaxPercentage, percentage))

validateRating(rating) ==
    IF isNaN(rating) THEN 0 ELSE Max(0, Min(MaxRating, rating))

\* Counts are whole numbers, which Math.floor leaves as they are.
validateCount(count) == IF isNaN(count) \/ count < 0 THEN 0 ELSE count

sanitizeString(value) == trim(value)

transformToProductInterface(healthKartProduct) ==
    IF validateHealthKartProduct(healthKartProduct) # NoError
    THEN Thrown(validateHealthKartProduct(healthKartProduct))
    ELSE IF validatePriceThrows(healthKartProduct.mrp)
            \/ validatePriceThrows(healthKartProduct.offer_pr)
    THEN Thrown(Err("Error", NoStatus, 0))
    ELSE Returned(
        [id |-> String(healthKartProduct.id),
         name |-> sanitizeString(healthKartProduct.nm),
         brand |-> sanitizeString(healthKartProduct.brName),
         category |-> sanitizeString(healthKartProduct.catName),
         originalPrice |-> validatePrice(healthKartProduct.mrp),
         currentPrice |-> validatePrice(healthKartProduct.offer_pr),
         discountPercentage |-> validatePercentage(healthKartProduct.discount),
         rating |-> validateRating(healthKartProduct.rating),
         reviewCount |-> validateCount(healthKartProduct.nrvw),
         isInStock |-> ~healthKartProduct.oos /\ healthKartProduct.ordrEnbld,
         url |-> S_site \o healthKartProduct.urlFragment])

\* Product.validate: the Error it throws, or NoError.
ProductValidate(data) ==
    IF trim(data.id) = <<>> THEN Err("Error", NoStatus, 0)
    ELSE IF trim(data.name) = <<>> THEN Err("Error", NoStatus, 0)
    ELSE IF trim(data.brand) = <<>> THEN Err("Error", NoStatus, 0)
    ELSE IF jsLess(data.originalPrice, 0) THEN Err("Error", NoStatus, 0)
    ELSE IF jsLess(data.currentPrice, 0) THEN Err("Error", NoStatus, 0)
    ELSE IF jsLess(data.discountPercentage, 0)
            \/ jsGreater(data.discountPercentage, MaxPercentage)
    THEN Err("Error", NoStatus, 0)
    ELSE IF jsLess(data.rating, 0) \/ jsGreater(data.rating, MaxRating)
    THEN Err("Error", NoStatus, 0)
    ELSE IF jsLess(data.reviewCount, 0) THEN Err("Error", NoStatus, 0)
    ELSE NoError

\* Product.create
ProductCreate(data) ==
    IF ProductValidate(data) # NoError THEN Thrown(ProductValidate(data))
    ELSE Returned(data)

\* new DataParsingError(message, { cause: error, ... })
DataParsingErrorOf(error) == [DataParsingError EXCEPT !.cause = <<error>>]

transformToProduct(healthKartProduct) ==
    LET productData == transformToProductInterface(healthKartProduct)
    IN  IF productData.threw THEN Thrown(DataParsingErrorOf(productData.error))
        ELSE IF ProductCreate(productData.value).threw
        THEN Thrown(DataParsingErrorOf(ProductCreate(productData.value).error))
        ELSE ProductCreate(productData.value)

\* transformToProducts: the products pushed, in input order; an item whose
\* transformation throws is logged and skipped.
RECURSIVE transformToProducts(_)
transformToProducts(healthKartProducts) ==
    IF healthKartProducts = <<>> THEN <<>>
    ELSE (IF transformToProduct(Head(healthKartProducts)).threw
          THEN <<>>
          ELSE <<transformToProduct(Head(healthKartProducts)).value>>)
         \o transformToProducts(Tail(healthKartProducts))

(***************************************************************************)
(* SendAlertUseCase.execute.  The catalog client, the transform service    *)
(* and the chat service are injected; what their methods return or throw   *)
(* is an input of the step that receives it.  The `cause` field of a stage *)
(* error stands for `details.cause`.                                       *)
(***************************************************************************)
\* Mutant of StageErrorKind: every stage failure is wrapped as a fetch error.
StageErrorKind_generic(stage) == "ProductFetchError"

\* The error class each stage's catch block constructs.
StageErrorKind(stage) ==
    CASE stage = "Fetch" -> "ProductFetchError"
      [] stage = "Process" -> "ProductProcessingError"
      [] stage = "Notify" -> "TelegramServiceError"

\* new <Stage>Error(message, ..., { cause: error, requestId })
StageError(stage, error) ==
    [kind |-> StageErrorKind(stage), statusCode |-> NoStatus, at |-> 0,
     attempts |-> 0, cause |-> <<error>>]

\* new ProductFetchError('No products returned from HealthKart API')
NoProductsError == Err("ProductFetchError", NoStatus, 0)

\* What the injected services can reject with or throw.
FetchFailures ==
    {HealthKartApiError(503, <<>>),
     Err("ApiTimeoutError", NoStatus, 0),
     RetryExhaustedError(1, HealthKartApiError(503, <<>>))}

TransformFailures == {Err("TypeError", NoStatus, 0)}

SendFailures == {Err("TelegramApiError", NoStatus, 0), Err("ApiTimeoutError", NoStatus, 0)}

\* Raw items the catalog client can resolve with.
RawSamples == {GoodItem, [GoodItem EXCEPT !.discount = 30]}

RawLists == UNION {[1..n -> RawSamples] : n \in 0..MaxRaw}

\* Products the transform service can return: one that meets the sample
\* configuration and ones that miss one criterion each.
DealProduct ==
    [name |-> "deal", discountPercentage |-> 50, currentPrice |-> 5, rating |-> 4,
     reviewCount |-> 10, isInStock |-> TRUE]

SampleProducts ==
    {DealProduct,
     [DealProduct EXCEPT !.name = "smallDiscount", !.discountPercentage = 30],
     [DealProduct EXCEPT !.name = "expensive", !.currentPrice = 20],
     [DealProduct EXCEPT !.name = "lowRating", !.rating = 2],
     [DealProduct EXCEPT !.name = "fewReviews", !.reviewCount = 0],
     [DealProduct EXCEPT !.name = "outOfStock", !.isInStock = FALSE]}

\* transformToProducts returns at most one Product per raw item.
ProductLists(rawProducts) ==
    UNION {[1..n -> SampleProducts] : n \in 0..Len(rawProducts)}

SampleConfigs ==
    [minDiscount : {40}, maxPrice : {10}, minRating : {3}, minReviews : {5},
     inStockOnly : BOOLEAN, brands : {<<>>, <<S_mb>>}, categories : {<<>>},
     maxProductsInAlert : {1, MaxProductsInAlert}]

filterQualifyingDeals(products, productFilter) ==
    SelectSeq(products, LAMBDA product :
        /\ product.discountPercentage >= productFilter.minDiscount
        /\ product.currentPrice <= productFilter.maxPrice
        /\ product.rating >= productFilter.minRating
        /\ product.reviewCount >= productFilter.minReviews
        /\ (IF productFilter.inStockOnly THEN product.isInStock ELSE TRUE))

\* Mutant of createProductSummaries: no slice(0, maxCount).
createProductSummaries_unlimited(products, maxCount) ==
    [i \in 1..Len(products) |->
        [name |-> products[i].name,
         currentPrice |-> products[i].currentPrice,
         discountPercentage |-> products[i].discountPercentage,
         rating |-> products[i].rating]]

createProductSummaries(products, maxCount) ==
    [i \in 1..Min(Len(products), maxCount) |->
        [name |-> products[i].name,
         currentPrice |-> products[i].currentPrice,
         discountPercentage |-> products[i].discountPercentage,
         rating |-> products[i].rating]]

AlertExecutionResult(rawProducts, qualifyingDeals, telegramSent, maxProductsInAlert) ==
    [totalProductsFetched |-> Len(rawProducts),
     qualifyingDeals |-> Len(qualifyingDeals),
     telegramSent |-> telegramSent,
     deals |-> createProductSummaries(qualifyingDeals, maxProductsInAlert)]

NoResult == AlertExecutionResult(<<>>, <<>>, FALSE, MaxProductsInAlert)

NoConfig ==
    [minDiscount |-> 0, maxPrice |-> 0, minRating |-> 0, minReviews |-> 0,
     inStockOnly |-> FALSE, brands |-> <<>>, categories |-> <<>>,
     maxProductsInAlert |-> MaxProductsInAlert]

AlertIdle ==
    /\ sa_pc = "idle"
    /\ sa_config = NoConfig
    /\ sa_stages = <<>>
    /\ sa_succeeded = <<>>
    /\ sa_calls = <<>>
    /\ sa_rawProducts = <<>>
    /\ sa_qualifyingDeals = <<>>
    /\ sa_failure = NoError
    /\ sa_error = NoError
    /\ sa_result = NoResult

AlertInit ==
    /\ sa_pc = "start"
    /\ sa_config \in SampleConfigs
    /\ sa_stages = <<>>
    /\ sa_succeeded = <<>>
    /\ sa_calls = <<>>
    /\ sa_rawProducts = <<>>
    /\ sa_qualifyingDeals = <<>>
    /\ sa_failure = NoError
    /\ sa_error = NoError
    /\ sa_result = NoResult

\* A stage's catch block: wrap the failure, and execute rethrows it.
SaStageFails(stage, error) ==
    /\ sa_failure' = error
    /\ sa_error' = StageError(stage, error)
    /\ sa_pc' = "rejected"

\* execute calls fetchProducts, which calls the client and awaits it.
SaExecute ==
    /\ sa_pc = "start"
    /\ sa_stages' = Append(sa_stages, "Fetch")
    /\ sa_calls' = Append(sa_calls, "fetchFilteredProducts")
    /\ sa_pc' = "awaitFetch"
    /\ UNCHANGED <<sa_config, sa_succeeded, sa_rawProducts, sa_qualifyingDeals,
                   sa_failure, sa_error, sa_result>>
    /\ UNCHANGED nonAlertVars

\* fetchFilteredProducts resolves; an empty list is thrown as a fetch error
\* inside the try block and wrapped by its catch block.
SaFetchResolves ==
    /\ sa_pc = "awaitFetch"
    /\ \E products \in RawLists :
          IF Len(products) = 0
          THEN /\ SaStageFails("Fetch", NoProductsError)
               /\ UNCHANGED <<sa_succeeded, sa_rawProducts>>
          ELSE /\ sa_rawProducts' = products
               /\ sa_succeeded' = Append(sa_succeeded, "Fetch")
               /\ sa_pc' = "process"
               /\ UNCHANGED <<sa_failure, sa_error>>
    /\ UNCHANGED <<sa_config, sa_stages, sa_calls, sa_qualifyingDeals, sa_result>>
    /\ UNCHANGED nonAlertVars

SaFetchRejects ==
    /\ sa_pc = "awaitFetch"
    /\ \E error \in FetchFailures : SaStageFails("Fetch", error)
    /\ UNCHANGED <<sa_config, sa_stages, sa_succeeded, sa_calls, sa_rawProducts,
                   sa_qualifyingDeals, sa_result>>
    /\ UNCHANGED nonAlertVars

\* processProducts: transformToProducts returns, then filterQualifyingDeals.
SaProcess ==
    /\ sa_pc = "process"
    /\ sa_stages' = Append(sa_stages, "Process")
    /\ sa_calls' = Append(sa_calls, "transformToProducts")
    /\ \E transformedProducts \in ProductLists(sa_rawProducts) :
          sa_qualifyingDeals' = filterQualifyingDeals(transformedProducts, sa_config)
    /\ sa_succeeded' = Append(sa_succeeded, "Process")
    /\ sa_pc' = "notify"
    /\ UNCHANGED <<sa_config, sa_rawProducts, sa_failure, sa_error, sa_result>>
    /\ UNCHANGED nonAlertVars

\* processProducts: the transform service throws.
SaProcessThrows ==
    /\ sa_pc = "process"
    /\ sa_stages' = Append(sa_stages, "Process")
    /\ sa_calls' = Append(sa_calls, "transformToProducts")
    /\ \E error \in TransformFailures : SaStageFails("Process", error)
    /\ UNCHANGED <<sa_config, sa_succeeded, sa_rawProducts, sa_qualifyingDeals, sa_result>>
    /\ UNCHANGED nonAlertVars

\* execute calls sendAlert: without deals it returns false at once and
\* execute resolves; otherwise it calls sendMessage and awaits it.
SaSendAlert ==
    /\ sa_pc = "notify"
    /\ sa_stages' = Append(sa_stages, "Notify")
    /\ IF Len(sa_qualifyingDeals) = 0
       THEN /\ sa_succeeded' = Append(sa_succeeded, "Notify")
            /\ sa_result' = AlertExecutionResult(sa_rawProducts, sa_qualifyingDeals, FALSE,
                                                 sa_config.maxProductsInAlert)
            /\ sa_pc' = "resolved"
            /\ UNCHANGED sa_calls
       ELSE /\ sa_calls' = Append(sa_calls, "sendMessage")
            /\ sa_pc' = "awaitSend"
            /\ UNCHANGED <<sa_succeeded, sa_result>>
    /\ UNCHANGED <<sa_config, sa_rawProducts, sa_qualifyingDeals, sa_failure, sa_error>>
    /\ UNCHANGED nonAlertVars

SaSendResolves ==
    /\ sa_pc = "awaitSend"
    /\ \E success \in BOOLEAN :
          sa_result' = AlertExecutionResult(sa_rawProducts, sa_qualifyingDeals, success,
                                            sa_config.maxProductsInAlert)
    /\ sa_succeeded' = Append(sa_succeeded, "Notify")
    /\ sa_pc' = "resolved"
    /\ UNCHANGED <<sa_config, sa_stages, sa_calls, sa_rawProducts, sa_qualifyingDeals,
                   sa_failure, sa_error>>
    /\ UNCHANGED nonAlertVars

SaSendRejects ==
    /\ sa_pc = "awaitSend"
    /\ \E error \in SendFailures : SaStageFails("Notify", error)
    /\ UNCHANGED <<sa_config, sa_stages, sa_succeeded, sa_calls, sa_rawProducts,
                   sa_qualifyingDeals, sa_result>>
    /\ UNCHANGED nonAlertVars

AlertNext ==
    \/ SaExecute
    \/ SaFetchResolves
    \/ SaFetchRejects
    \/ SaProcess
    \/ SaProcessThrows
    \/ SaSendAlert
    \/ SaSendResolves
    \/ SaSendRejects

(***************************************************************************)
(* The run as ServiceFactory wires it: execute with HealthKartApiClient as *)
(* the catalog client and HealthKartTransformService as the transform      *)
(* service.  The other steps of execute are those of the use case above.   *)
(***************************************************************************)
\* config.productFilter read as the ProductFilter argument of
\* fetchFilteredProducts: every numeric threshold is present.
asProductFilter(productFilter) ==
    [minDiscount |-> productFilter.minDiscount,
     maxPrice |-> <<productFilter.maxPrice>>,
     minRating |-> <<productFilter.minRating>>,
     minReviews |-> <<productFilter.minReviews>>,
     inStockOnly |-> productFilter.inStockOnly,
     brands |-> productFilter.brands,
     categories |-> productFilter.categories,
     flavors |-> <<>>]

\* Items a category can hold: a deal, and items that miss the discount, are
\* not orderable, or are of another brand.
CatalogSamples ==
    {GoodItem,
     [GoodItem EXCEPT !.discount = 30],
     [GoodItem EXCEPT !.ordrEnbld = FALSE],
     [GoodItem EXCEPT !.brName = S_mbx]}

CatalogLists == UNION {[1..n -> CatalogSamples] : n \in 0..MaxRaw}

RunIdle == rn_catalog = <<>>

RunInit == rn_catalog \in CatalogLists

\* HealthKartApiClient.fetchFilteredProducts resolves with the filtered
\* items; fetchProducts throws when the list is empty.
RnFetchResolves ==
    /\ sa_pc = "awaitFetch"
    /\ LET products == applyProductFilter(rn_catalog, asProductFilter(sa_config))
       IN  IF Len(products) = 0
           THEN /\ SaStageFails("Fetch", NoProductsError)
                /\ UNCHANGED <<sa_succeeded, sa_rawProducts>>
           ELSE /\ sa_rawProducts' = products
                /\ sa_succeeded' = Append(sa_succeeded, "Fetch")
                /\ sa_pc' = "process"
                /\ UNCHANGED <<sa_failure, sa_error>>
    /\ UNCHANGED <<sa_config, sa_stages, sa_calls, sa_qualifyingDeals, sa_result>>
    /\ UNCHANGED nonAlertVars

\* processProducts with HealthKartTransformService.transformToProducts.
RnProcess ==
    /\ sa_pc = "process"
    /\ sa_stages' = Append(sa_stages, "Process")
    /\ sa_calls' = Append(sa_calls, "transformToProducts")
    /\ sa_qualifyingDeals' =
          filterQualifyingDeals(transformToProducts(sa_rawProducts), sa_config)
    /\ sa_succeeded' = Append(sa_succeeded, "Process")
    /\ sa_pc' = "notify"
    /\ UNCHANGED <<sa_config, sa_rawProducts, sa_failure, sa_error, sa_result>>
    /\ UNCHANGED nonAlertVars

RunNext ==
    \/ SaExecute
    \/ RnFetchResolves
    \/ SaFetchRejects
    \/ RnProcess
    \/ SaSendAlert
    \/ SaSendResolves
    \/ SaSendRejects

(***************************************************************************)
(* TelegramService.sendDealAlerts.  A message body is the sequence of the  *)
(* tokens of its blocks.                                                   *)
(***************************************************************************)
\* The block of one product: its heading, what identifies the product and
\* the discount line.
formatDealAlert(product) ==
    <<"DEAL ALERT", product.id, product.discountPercentage, "Order Now">>

\* Insertion of a product behind every product whose discount is not lower.
RECURSIVE insertByDiscount(_, _)
insertByDiscount(sorted, product) ==
    IF sorted = <<>> THEN <<product>>
    ELSE IF Head(sorted).discountPercentage >= product.discountPercentage
         THEN <<Head(sorted)>> \o insertByDiscount(Tail(sorted), product)
         ELSE <<product>> \o sorted

\* products.sort((a, b) => b.discountPercentage - a.discountPercentage),
\* a stable sort.
RECURSIVE sortByDiscount(_)
sortByDiscount(products) ==
    IF products = <<>> THEN <<>>
    ELSE insertByDiscount(sortByDiscount(SubSeq(products, 1, Len(products) - 1)),
                          products[Len(products)])

\* The for loop of sendDealAlerts: append the block, count, leave the loop
\* once count > 5.
RECURSIVE buildMessage(_, _, _)
buildMessage(sortedProducts, count, message) ==
    IF sortedProducts = <<>> THEN message
    ELSE IF count + 1 > AlertBatchLimit
         THEN message \o formatDealAlert(Head(sortedProducts))
         ELSE buildMessage(Tail(sortedProducts), count + 1,
                           message \o formatDealAlert(Head(sortedProducts)))

DealDiscounts == {10, 30, 50}

\* Non-empty product lists; a product is known by its position in the list.
DealLists ==
    UNION {{[i \in 1..n |-> [id |-> i, discountPercentage |-> d[i]]] :
               d \in [1..n -> DealDiscounts]} : n \in 1..MaxDeals}

DealsIdle ==
    /\ sd_pc = "idle"
    /\ sd_input = <<>>
    /\ sd_products = <<>>
    /\ sd_messages = <<>>
    /\ sd_returned = "none"

DealsInit ==
    /\ sd_pc = "start"
    /\ sd_input \in DealLists
    /\ sd_products = sd_input
    /\ sd_messages = <<>>
    /\ sd_returned = "none"

\* sendDealAlerts up to its await of sendMessage.
SdCall ==
    /\ sd_pc = "start"
    /\ sd_products' = sortByDiscount(sd_products)
    /\ sd_messages' = Append(sd_messages, buildMessage(sortByDiscount(sd_products), 0, <<>>))
    /\ sd_pc' = "awaitSend"
    /\ UNCHANGED <<sd_input, sd_returned>>
    /\ UNCHANGED nonDealsVars

SdSendResolves ==
    /\ sd_pc = "awaitSend"
    /\ \E success \in {"true", "false"} : sd_returned' = success
    /\ sd_pc' = "returned"
    /\ UNCHANGED <<sd_input, sd_products, sd_messages>>
    /\ UNCHANGED nonDealsVars

\* sendMessage rejects: the inner catch logs and the call resolves with
\* undefined.
SdSendRejects ==
    /\ sd_pc = "awaitSend"
    /\ sd_returned' = "undefined"
    /\ sd_pc' = "returned"
    /\ UNCHANGED <<sd_input, sd_products, sd_messages>>
    /\ UNCHANGED nonDealsVars

DealsNext ==
    \/ SdCall
    \/ SdSendResolves
    \/ SdSendRejects

(***************************************************************************)
(* telegramService.sendMessage: the retry loop of the service              *)
(* (sendWithRetry) and, when the service comes from ServiceFactory, the    *)
(* withRetry wrapper around sendMessage.                                   *)
(***************************************************************************)
\* The `code` of what bot.sendMessage rejects with ("none": no code).
BotCodes ==
    {"ETELEGRAM_400", "ETELEGRAM_401", "ETELEGRAM_403", "ETELEGRAM_404",
     "ETELEGRAM_429", "EFATAL", "none"}

nonRetryableCodes == {"ETELEGRAM_400", "ETELEGRAM_401", "ETELEGRAM_403", "ETELEGRAM_404"}

BotError(code) == [kind |-> "Error", code |-> code]

\* TelegramService.shouldRetry
telegramShouldRetry(error) ==
    IF error.code # "none" /\ error.code \in nonRetryableCodes THEN FALSE ELSE TRUE

\* new TelegramApiError('Failed to send Telegram message', { cause: error })
TelegramApiErrorOf(error) ==
    [kind |-> "TelegramApiError", statusCode |-> NoStatus, at |-> 0, attempts |-> 0,
     cause |-> <<error>>]

\* What sendWithRetry throws for this rejection, wrapped by the catch block
\* of sendMessage; NoError when sendWithRetry goes on to its delay.
sendMessageFailure(error, attempt, maxRetries) ==
    IF attempt = maxRetries + 1
    THEN TelegramApiErrorOf(RetryExhaustedError(maxRetries + 1, error))
    ELSE IF ~telegramShouldRetry(error) THEN TelegramApiErrorOf(error)
    ELSE NoError

SendIdle ==
    /\ tg_pc = "idle"
    /\ tg_wrapped = FALSE
    /\ tg_maxRetries = 0
    /\ tg_attempt = 0
    /\ tg_outerAttempt = 0
    /\ tg_botCalls = 0
    /\ tg_lastCode = "none"
    /\ tg_nonRetryableAt = 0
    /\ tg_error = NoError

SendInit ==
    /\ tg_pc = "start"
    /\ tg_wrapped \in BOOLEAN
    /\ tg_maxRetries \in 0..MaxTgRetries
    /\ tg_attempt = 0
    /\ tg_outerAttempt = 0
    /\ tg_botCalls = 0
    /\ tg_lastCode = "none"
    /\ tg_nonRetryableAt = 0
    /\ tg_error = NoError

\* sendMessage is called: the first attempt of sendWithRetry invokes the bot.
TgCall ==
    /\ tg_pc = "start"
    /\ tg_attempt' = 1
    /\ tg_botCalls' = tg_botCalls + 1
    /\ tg_pc' = "sending"
    /\ UNCHANGED <<tg_wrapped, tg_maxRetries, tg_outerAttempt, tg_lastCode,
                   tg_nonRetryableAt, tg_error>>
    /\ UNCHANGED nonSendVars

\* bot.sendMessage resolves: sendWithRetry returns, sendMessage resolves true.
TgBotResolves ==
    /\ tg_pc = "sending"
    /\ tg_pc' = "resolved"
    /\ UNCHANGED <<tg_wrapped, tg_maxRetries, tg_attempt, tg_outerAttempt, tg_botCalls,
                   tg_lastCode, tg_nonRetryableAt, tg_error>>
    /\ UNCHANGED nonSendVars

\* bot.sendMessage rejects: the catch block of sendWithRetry, then that of
\* sendMessage, then (when wrapped) that of withRetry.
TgBotRejects ==
    /\ tg_pc = "sending"
    /\ \E code \in BotCodes :
          LET failure == sendMessageFailure(BotError(code), tg_attempt, tg_maxRetries)
          IN  /\ tg_lastCode' = code
              /\ tg_nonRetryableAt' =
                    IF tg_nonRetryableAt = 0 /\ code \in nonRetryableCodes
                    THEN tg_botCalls ELSE tg_nonRetryableAt
              /\ IF failure = NoError
                 THEN tg_pc' = "delay" /\ UNCHANGED tg_error
                 ELSE IF ~tg_wrapped
                         \/ isNonRetryableError(failure)
                         \/ WrLastAttempt(tg_outerAttempt, tg_maxRetries)
                 THEN tg_pc' = "rejected" /\ tg_error' = failure
                 ELSE tg_pc' = "outerSleep" /\ UNCHANGED tg_error
    /\ UNCHANGED <<tg_wrapped, tg_maxRetries, tg_attempt, tg_outerAttempt, tg_botCalls>>
    /\ UNCHANGED nonSendVars

\* The delay of sendWithRetry is over: the next attempt invokes the bot.
TgDelayElapsed ==
    /\ tg_pc = "delay"
    /\ tg_attempt' = tg_attempt + 1
    /\ tg_botCalls' = tg_botCalls + 1
    /\ tg_pc' = "sending"
    /\ UNCHANGED <<tg_wrapped, tg_maxRetries, tg_outerAttempt, tg_lastCode,
                   tg_nonRetryableAt, tg_error>>
    /\ UNCHANGED nonSendVars

\* The sleep of withRetry is over: it calls the original sendMessage again.
TgOuterWake ==
    /\ tg_pc = "outerSleep"
    /\ tg_outerAttempt' = WrNextAttempt(tg_outerAttempt)
    /\ tg_attempt' = 1
    /\ tg_botCalls' = tg_botCalls + 1
    /\ tg_pc' = "sending"
    /\ UNCHANGED <<tg_wrapped, tg_maxRetries, tg_lastCode, tg_nonRetryableAt, tg_error>>
    /\ UNCHANGED nonSendVars

SendNext ==
    \/ TgCall
    \/ TgBotResolves
    \/ TgBotRejects
    \/ TgDelayElapsed
    \/ TgOuterWake

(***************************************************************************)
(* One call of transformToProduct on a raw item.                           *)
(***************************************************************************)
S_blank == <<" ">>

\* Raw items with field values inside and outside their domains.
TransformItems ==
    {[GoodItem EXCEPT !.id = id, !.nm = nm, !.brName = brName,
                      !.urlFragment = urlFragment, !.mrp = mrp, !.offer_pr = offer_pr,
                      !.discount = discount, !.rating = rating, !.nrvw = nrvw,
                      !.ordrEnbld = ordrEnbld] :
        id \in {0, 1, 12}, nm \in {S_Whey, S_blank, <<>>}, brName \in {S_MB, <<>>},
        urlFragment \in {S_url, <<>>}, mrp \in {-1, 40, 44, NaN},
        offer_pr \in {-1, 5, NaN}, discount \in {-5, 50, 150, NaN},
        rating \in {-1, 4, 7, NaN}, nrvw \in {-3, 10, NaN}, ordrEnbld \in BOOLEAN}

TransformIdle ==
    /\ tf_pc = "idle"
    /\ tf_item = GoodItem
    /\ tf_result = Returned(NoProduct)

TransformInit ==
    /\ tf_pc = "called"
    /\ tf_item \in TransformItems
    /\ tf_result = Returned(NoProduct)

TfTransform ==
    /\ tf_pc = "called"
    /\ tf_result' = transformToProduct(tf_item)
    /\ tf_pc' = "done"
    /\ UNCHANGED tf_item
    /\ UNCHANGED nonTransformVars

TransformNext == TfTransform

(***************************************************************************)
(* transformToProducts, one step per iteration of its for loop.            *)
(***************************************************************************)
BatchItems ==
    {GoodItem,
     [GoodItem EXCEPT !.id = 2, !.discount = 150],
     [GoodItem EXCEPT !.id = 0],
     [GoodItem EXCEPT !.id = 3, !.mrp = -1],
     [GoodItem EXCEPT !.id = 4, !.nm = S_blank]}

BatchLists == UNION {[1..n -> BatchItems] : n \in 0..MaxBatch}

BatchIdle ==
    /\ tb_pc = "idle"
    /\ tb_input = <<>>
    /\ tb_index = 0
    /\ tb_products = <<>>
    /\ tb_errors = <<>>
    /\ tb_threw = FALSE

BatchInit ==
    /\ tb_pc = "loop"
    /\ tb_input \in BatchLists
    /\ tb_index = 0
    /\ tb_products = <<>>
    /\ tb_errors = <<>>
    /\ tb_threw = FALSE

\* try { products.push(this.transformToProduct(healthKartProduct)) }
TbPush ==
    /\ tb_pc = "loop"
    /\ tb_index < Len(tb_input)
    /\ ~transformToProduct(tb_input[tb_index + 1]).threw
    /\ tb_products' = Append(tb_products, transformToProduct(tb_input[tb_index + 1]).value)
    /\ tb_index' = tb_index + 1
    /\ UNCHANGED <<tb_pc, tb_input, tb_errors, tb_threw>>
    /\ UNCHANGED nonBatchVars

\* Mutant of TbSkip: the error of a failing item leaves the loop.
TbSkip_rethrows ==
    /\ tb_pc = "loop"
    /\ tb_index < Len(tb_input)
    /\ transformToProduct(tb_input[tb_index + 1]).threw
    /\ tb_threw' = TRUE
    /\ tb_pc' = "done"
    /\ UNCHANGED <<tb_input, tb_index, tb_products, tb_errors>>
    /\ UNCHANGED nonBatchVars

\* catch (error) { errors.push(...); this.logger.warn(...) }
TbSkip ==
    /\ tb_pc = "loop"
    /\ tb_index < Len(tb_input)
    /\ transformToProduct(tb_input[tb_index + 1]).threw
    /\ tb_errors' = Append(tb_errors, tb_input[tb_index + 1].id)
    /\ tb_index' = tb_index + 1
    /\ UNCHANGED <<tb_pc, tb_input, tb_products, tb_threw>>
    /\ UNCHANGED nonBatchVars

\* return products
TbReturn ==
    /\ tb_pc = "loop"
    /\ tb_index = Len(tb_input)
    /\ tb_pc' = "done"
    /\ UNCHANGED <<tb_input, tb_index, tb_products, tb_errors, tb_threw>>
    /\ UNCHANGED nonBatchVars

BatchNext == TbPush \/ TbSkip \/ TbReturn

(***************************************************************************)
(* The Product entity: Product.create, then updatePricing calls on the     *)
(* instance.                                                               *)
(***************************************************************************)
ValidData == transformToProductInterface(GoodItem).value

\* ProductInterface values with fields inside and outside their domains.
ProductData ==
    {[ValidData EXCEPT !.id = id, !.name = name, !.brand = brand,
                       !.originalPrice = originalPrice, !.currentPrice = currentPrice,
                       !.discountPercentage = discountPercentage, !.rating = rating,
                       !.reviewCount = reviewCount] :
        id \in {String(1), S_blank, <<>>}, name \in {S_Whey, <<>>}, brand \in {S_MB, <<>>},
        originalPrice \in {-1, 0, 40, NaN}, currentPrice \in {-1, 5, NaN},
        discountPercentage \in {-1, 0, 100, 101, NaN}, rating \in {-1, 0, 5, 6, NaN},
        reviewCount \in {-1, 0, NaN}}

NewPrices == {-1, 0, 7, NaN}
NewDiscounts == {-1, 100, 101, NaN}

\* Product.validatePricing: the Error it throws, or NoError.
validatePricing(currentPrice, discountPercentage) ==
    IF jsLess(currentPrice, 0) THEN Err("Error", NoStatus, 0)
    ELSE IF jsLess(discountPercentage, 0) \/ jsGreater(discountPercentage, MaxPercentage)
    THEN Err("Error", NoStatus, 0)
    ELSE NoError

\* product.updatePricing(newCurrentPrice, newDiscountPercentage)
updatePricing(product, newCurrentPrice, newDiscountPercentage) ==
    IF validatePricing(newCurrentPrice, newDiscountPercentage) # NoError
    THEN Thrown(validatePricing(newCurrentPrice, newDiscountPercentage))
    ELSE Returned([product EXCEPT !.currentPrice = newCurrentPrice,
                                  !.discountPercentage = newDiscountPercentage])

ProductIdle ==
    /\ pr_pc = "idle"
    /\ pr_data = ValidData
    /\ pr_product = <<>>
    /\ pr_updates = 0
    /\ pr_threw = FALSE
    /\ pr_heap = <<>>
    /\ pr_args = <<>>

ProductInit ==
    /\ pr_pc = "called"
    /\ pr_data \in ProductData
    /\ pr_product = <<>>
    /\ pr_updates = 0
    /\ pr_threw = FALSE
    /\ pr_heap = <<>>
    /\ pr_args = <<>>

PrCreateReturns ==
    /\ pr_pc = "called"
    /\ ~ProductCreate(pr_data).threw
    /\ pr_product' = <<ProductCreate(pr_data).value>>
    /\ pr_heap' = Append(pr_heap, ProductCreate(pr_data).value)
    /\ pr_pc' = "ready"
    /\ UNCHANGED <<pr_data, pr_updates, pr_threw, pr_args>>
    /\ UNCHANGED nonProductVars

PrCreateThrows ==
    /\ pr_pc = "called"
    /\ ProductCreate(pr_data).threw
    /\ pr_threw' = TRUE
    /\ pr_pc' = "failed"
    /\ UNCHANGED <<pr_data, pr_product, pr_updates, pr_heap, pr_args>>
    /\ UNCHANGED nonProductVars

PrUpdateReturns ==
    /\ pr_pc = "ready"
    /\ pr_updates < MaxUpdates
    /\ \E price \in NewPrices, discount \in NewDiscounts :
         /\ ~updatePricing(pr_product[1], price, discount).threw
         /\ pr_product' = <<updatePricing(pr_product[1], price, discount).value>>
         /\ pr_heap' = Append(pr_heap, updatePricing(pr_product[1], price, discount).value)
         /\ pr_args' = <<price, discount>>
    /\ pr_updates' = pr_updates + 1
    /\ pr_threw' = FALSE
    /\ UNCHANGED <<pr_pc, pr_data>>
    /\ UNCHANGED nonProductVars

PrUpdateThrows ==
    /\ pr_pc = "ready"
    /\ pr_updates < MaxUpdates
    /\ \E price \in NewPrices, discount \in NewDiscounts :
         /\ updatePricing(pr_product[1], price, discount).threw
         /\ pr_args' = <<price, discount>>
    /\ pr_updates' = pr_updates + 1
    /\ pr_threw' = TRUE
    /\ UNCHANGED <<pr_pc, pr_data, pr_product, pr_heap>>
    /\ UNCHANGED nonProductVars

ProductNext == PrCreateReturns \/ PrCreateThrows \/ PrUpdateReturns \/ PrUpdateThrows

(***************************************************************************)
(* Product.meetsAlertCriteria.  An optional criterion is <<>> when it is   *)
(* not given and <<value>> when it is.                                     *)
(***************************************************************************)
hasSignificantDiscount(product, threshold) ==
    jsGreaterEq(product.discountPercentage, threshold)

hasGoodRating(product, minRating) == jsGreaterEq(product.rating, minRating)

hasSufficientReviews(product, minReviews) == jsGreaterEq(product.reviewCount, minReviews)

\* Mutant of meetsAlertCriteria: the stock check is left out.
meetsAlertCriteria_ignoresStock(product, criteria) ==
    /\ hasSignificantDiscount(product, criteria.minDiscount)
    /\ ~(truthy(criteria.maxPrice) /\ jsGreater(product.currentPrice, criteria.maxPrice[1]))
    /\ ~(truthy(criteria.minRating) /\ ~hasGoodRating(product, criteria.minRating[1]))
    /\ ~(truthy(criteria.minReviews) /\ ~hasSufficientReviews(product, criteria.minReviews[1]))
    /\ (criteria.preferredBrands # <<>> /\ Len(criteria.preferredBrands[1]) > 0) =>
          \E i \in DOMAIN criteria.preferredBrands[1] :
             includes(toLowerCase(product.brand), toLowerCase(criteria.preferredBrands[1][i]))

meetsAlertCriteria(product, criteria) ==
    IF ~hasSignificantDiscount(product, criteria.minDiscount) THEN FALSE
    ELSE IF truthy(criteria.maxPrice) /\ jsGreater(product.currentPrice, criteria.maxPrice[1])
    THEN FALSE
    ELSE IF truthy(criteria.minRating) /\ ~hasGoodRating(product, criteria.minRating[1])
    THEN FALSE
    ELSE IF truthy(criteria.minReviews) /\ ~hasSufficientReviews(product, criteria.minReviews[1])
    THEN FALSE
    ELSE IF /\ criteria.preferredBrands # <<>>
            /\ Len(criteria.preferredBrands[1]) > 0
            /\ ~\E i \in DOMAIN criteria.preferredBrands[1] :
                  includes(toLowerCase(product.brand),
                           toLowerCase(criteria.preferredBrands[1][i]))
    THEN FALSE
    ELSE IF ~product.isInStock THEN FALSE
    ELSE TRUE

CriteriaProducts ==
    {[ValidData EXCEPT !.discountPercentage = discountPercentage,
                       !.currentPrice = currentPrice, !.brand = brand,
                       !.isInStock = isInStock] :
        discountPercentage \in {20, 50}, currentPrice \in {0, 5},
        brand \in {S_MB, S_mbx, S_Whey}, isInStock \in BOOLEAN}

SampleCriteria ==
    [minDiscount : {0, 30, 60},
     maxPrice : {<<>>, <<0>>, <<4>>, <<5>>},
     minRating : {<<>>, <<0>>, <<4>>, <<5>>},
     minReviews : {<<>>, <<0>>, <<11>>},
     preferredBrands : {<<>>, <<<<>>>>, <<<<S_mb>>>>, <<<<S_Bars, S_MB>>>>}]

NoCriteria ==
    [minDiscount |-> 0, maxPrice |-> <<>>, minRating |-> <<>>, minReviews |-> <<>>,
     preferredBrands |-> <<>>]

CriteriaIdle ==
    /\ mc_pc = "idle"
    /\ mc_product = ValidData
    /\ mc_criteria = NoCriteria
    /\ mc_result = FALSE

CriteriaInit ==
    /\ mc_pc = "called"
    /\ mc_product \in CriteriaProducts
    /\ mc_criteria \in SampleCriteria
    /\ mc_result = FALSE

McReturn ==
    /\ mc_pc = "called"
    /\ mc_result' = meetsAlertCriteria(mc_product, mc_criteria)
    /\ mc_pc' = "done"
    /\ UNCHANGED <<mc_product, mc_criteria>>
    /\ UNCHANGED nonCriteriaVars

CriteriaNext == McReturn

(***************************************************************************)
(* MonitorProductDealsUseCase.execute from the items its apiClient         *)
(* returned to the matching products of the run.                           *)
(***************************************************************************)
MonitorItems ==
    {GoodItem,
     [GoodItem EXCEPT !.id = 2, !.oos = TRUE],
     [GoodItem EXCEPT !.id = 3, !.ordrEnbld = FALSE],
     [GoodItem EXCEPT !.id = 4, !.discount = 20],
     [GoodItem EXCEPT !.id = 5, !.brName = S_Whey]}

MonitorLists == UNION {[1..n -> MonitorItems] : n \in 0..MaxMonitored}

AlertConfigurations ==
    [discountThreshold : {30, 60}, maxPrice : {0, 10, 200}, minRating : {0, 4},
     brands : {<<>>, <<S_mb>>}]

NoAlertConfig == [discountThreshold |-> 0, maxPrice |-> 0, minRating |-> 0, brands |-> <<>>]

\* The criteria object findMatchingProducts builds.
criteriaOf(alertConfig) ==
    [minDiscount |-> alertConfig.discountThreshold,
     maxPrice |-> <<alertConfig.maxPrice>>,
     minRating |-> <<alertConfig.minRating>>,
     minReviews |-> <<1>>,
     preferredBrands |-> <<alertConfig.brands>>]

matchesConfig(product, alertConfig) == meetsAlertCriteria(product, criteriaOf(alertConfig))

findMatchingProducts(products, alertConfig) ==
    SelectSeq(products, LAMBDA product : matchesConfig(product, alertConfig))

MonitorIdle ==
    /\ mp_pc = "idle"
    /\ mp_alertConfig = NoAlertConfig
    /\ mp_raw = <<>>
    /\ mp_products = <<>>
    /\ mp_matching = <<>>

MonitorInit ==
    /\ mp_pc = "fetched"
    /\ mp_alertConfig \in AlertConfigurations
    /\ mp_raw \in MonitorLists
    /\ mp_products = <<>>
    /\ mp_matching = <<>>

\* Step 3: transformService.transformToProducts(healthKartProducts)
MpTransform ==
    /\ mp_pc = "fetched"
    /\ mp_products' = transformToProducts(mp_raw)
    /\ mp_pc' = "transformed"
    /\ UNCHANGED <<mp_alertConfig, mp_raw, mp_matching>>
    /\ UNCHANGED nonMonitorVars

\* Step 4: this.findMatchingProducts(products, alertConfig)
MpFindMatching ==
    /\ mp_pc = "transformed"
    /\ mp_matching' = findMatchingProducts(mp_products, mp_alertConfig)
    /\ mp_pc' = "done"
    /\ UNCHANGED <<mp_alertConfig, mp_raw, mp_products>>
    /\ UNCHANGED nonMonitorVars

MonitorNext == MpTransform \/ MpFindMatching

(***************************************************************************)
(* The specifications the transform service extracts and                   *)
(* Product.getPricePerGramProtein.  Only proteinPerServing and             *)
(* servingsPerContainer are kept; the sample strings hold whole numbers.   *)
(* A quotient is kept as numerator and denominator, or is Infinity or NaN  *)
(* as IEEE division makes it.                                              *)
(***************************************************************************)
S_sn_pro_sev == <<"s", "n", "-", "p", "r", "o", "-", "s", "e", "v">>
S_gen_pro_ser_pck ==
    <<"g", "e", "n", "-", "p", "r", "o", "-", "s", "e", "r", "-", "p", "c", "k">>
S_0g == <<"0", "g">>
S_24g == <<"2", "4", "g">>
S_NA == <<"N", "/", "A">>
S_30 == <<"3", "0">>
S_0 == <<"0">>

isDigit(c) == \E d \in DOMAIN Digits : Digits[d] = c

digitValue(c) == (CHOOSE d \in DOMAIN Digits : Digits[d] = c) - 1

RECURSIVE leadingDigits(_)
leadingDigits(str) ==
    IF str # <<>> /\ isDigit(Head(str)) THEN <<Head(str)>> \o leadingDigits(Tail(str))
    ELSE <<>>

RECURSIVE digitsValue(_)
digitsValue(digits) ==
    IF digits = <<>> THEN 0
    ELSE 10 * digitsValue(SubSeq(digits, 1, Len(digits) - 1)) + digitValue(digits[Len(digits)])

\* parseFloat: the number the string starts with, NaN when it starts with none.
parseFloat(str) ==
    IF leadingDigits(trimStart(str)) = <<>> THEN NaN
    ELSE digitsValue(leadingDigits(trimStart(str)))

isDigitOrDot(c) == isDigit(c) \/ c = "."

\* parseNumericValue of a string: value.replace(/[^\d.]/g, '') then parseFloat
parseNumericValue(value) ==
    IF isNaN(parseFloat(SelectSeq(value, isDigitOrDot))) THEN 0
    ELSE parseFloat(SelectSeq(value, isDigitOrDot))

EmptySpecs == [proteinPerServing |-> <<>>, servingsPerContainer |-> 0]

mapAttributeToSpec(attribute, specs) ==
    IF attribute.nm = S_sn_pro_sev
    THEN [specs EXCEPT !.proteinPerServing = sanitizeString(attribute.val)]
    ELSE IF attribute.nm = S_gen_pro_ser_pck
    THEN [specs EXCEPT !.servingsPerContainer = parseNumericValue(attribute.val)]
    ELSE specs

RECURSIVE mapAttributes(_, _)
mapAttributes(values, specs) ==
    IF values = <<>> THEN specs
    ELSE mapAttributes(Tail(values), mapAttributeToSpec(Head(values), specs))

RECURSIVE mapGroups(_, _)
mapGroups(groups, specs) ==
    IF groups = <<>> THEN specs
    ELSE mapGroups(Tail(groups), mapAttributes(Head(groups), specs))

\* Math.floor leaves the whole numbers parseNumericValue yields here unchanged.
postProcessSpecifications(specs) ==
    [proteinPerServing |->
        IF specs.proteinPerServing = <<>> THEN S_0g ELSE specs.proteinPerServing,
     servingsPerContainer |-> Max(0, specs.servingsPerContainer)]

extractSpecifications(groups) == postProcessSpecifications(mapGroups(groups, EmptySpecs))

Finite(num, den) == [kind |-> "finite", num |-> num, den |-> den]

\* x / y for numbers x >= 0 and y >= 0
Quotient(x, y) ==
    IF y # 0 THEN Finite(x, y)
    ELSE IF x = 0 THEN [kind |-> "NaN", num |-> 0, den |-> 0]
    ELSE [kind |-> "Infinity", num |-> 0, den |-> 0]

getPricePerGramProtein(currentPrice, specifications) ==
    LET proteinPerServing == parseFloat(specifications.proteinPerServing)
        servingsPerContainer == specifications.servingsPerContainer
    IN  IF isNaN(proteinPerServing) \/ servingsPerContainer = 0 THEN Finite(0, 1)
        ELSE Quotient(currentPrice, proteinPerServing * servingsPerContainer)

\* The protein and servings attributes of one group, each present or not.
ProteinGroups ==
    {<< (IF protein = <<>> THEN <<>> ELSE <<Attribute(S_sn_pro_sev, S_attr, protein[1])>>)
        \o (IF servings = <<>> THEN <<>>
            ELSE <<Attribute(S_gen_pro_ser_pck, S_attr, servings[1])>>) >> :
        protein \in {<<>>, <<S_24g>>, <<S_0g>>, <<S_NA>>, <<S_blank>>},
        servings \in {<<>>, <<S_30>>, <<S_0>>, <<S_NA>>}}

ProteinPrices == {0, 10, 600, 1500}

ProteinIdle ==
    /\ pp_pc = "idle"
    /\ pp_groups = <<>>
    /\ pp_price = 0
    /\ pp_specifications = EmptySpecs
    /\ pp_result = Finite(0, 1)

ProteinInit ==
    /\ pp_pc = "raw"
    /\ pp_groups \in ProteinGroups
    /\ pp_price \in ProteinPrices
    /\ pp_specifications = EmptySpecs
    /\ pp_result = Finite(0, 1)

\* transformToProductInterface: specifications = extractSpecifications(grps)
PpExtract ==
    /\ pp_pc = "raw"
    /\ pp_specifications' = extractSpecifications(pp_groups)
    /\ pp_pc' = "extracted"
    /\ UNCHANGED <<pp_groups, pp_price, pp_result>>
    /\ UNCHANGED nonProteinVars

PpPricePerGram ==
    /\ pp_pc = "extracted"
    /\ pp_result' = getPricePerGramProtein(pp_price, pp_specifications)
    /\ pp_pc' = "done"
    /\ UNCHANGED <<pp_groups, pp_price, pp_specifications>>
    /\ UNCHANGED nonProteinVars

ProteinNext == PpExtract \/ PpPricePerGram

(***************************************************************************)
(* executeMultiCategory: one execute run per category, interleaved at      *)
(* their awaits, then aggregateResults over the settled runs.  `undefined` *)
(* and NaN are the values JavaScript gives for a missing property and for  *)
(* arithmetic on it.                                                       *)
(***************************************************************************)
CategoryRuns == 1..MaxCategoryRuns

MultiAlertConfig == [discountThreshold |-> 30, maxPrice |-> 200, minRating |-> 4, brands |-> <<>>]

\* What fetchFilteredProducts may resolve with.
MultiLists ==
    {<<>>,
     <<GoodItem>>,
     <<GoodItem, [GoodItem EXCEPT !.id = 4, !.discount = 20]>>,
     <<[GoodItem EXCEPT !.id = 2, !.oos = TRUE]>>}

\* What sendDealAlerts resolves with: the boolean of sendMessage, or
\* undefined after its inner catch.
AlertOutcomes == {"true", "false", "undefined"}

MonitoringResult(totalProducts, matchingProducts, alertsSent, alertsFailed, errors) ==
    [totalProducts |-> totalProducts, matchingProducts |-> matchingProducts,
     alertTriggered |-> Len(matchingProducts) > 0,
     alertsSent |-> alertsSent, alertsFailed |-> alertsFailed, errors |-> errors]

EmptyResult == [MonitoringResult(0, <<>>, 0, 0, <<>>) EXCEPT !.alertTriggered = FALSE]

\* a + b of JavaScript: NaN when an operand is undefined or NaN
jsAdd(a, b) == IF a \in {NaN, Undefined} \/ b \in {NaN, Undefined} THEN NaN ELSE a + b

\* One iteration of the for loop of aggregateResults.
aggregateOne(aggregated, status, value) ==
    IF status = "fulfilled"
    THEN [totalProducts |-> jsAdd(aggregated.totalProducts, value.totalProducts),
          matchingProducts |-> aggregated.matchingProducts \o value.matchingProducts,
          alertTriggered |-> aggregated.alertTriggered \/ value.alertTriggered,
          alertsSent |-> jsAdd(aggregated.alertsSent, value.alertsSent),
          alertsFailed |-> jsAdd(aggregated.alertsFailed, value.alertsFailed),
          errors |-> aggregated.errors \o value.errors]
    ELSE [aggregated EXCEPT !.errors = Append(aggregated.errors, "MonitoringError")]

RECURSIVE aggregateResults(_, _, _)
aggregateResults(statuses, values, n) ==
    IF n = 0 THEN EmptyResult
    ELSE aggregateOne(aggregateResults(statuses, values, n - 1), statuses[n], values[n])

MultiIdle ==
    /\ mm_pc = "idle"
    /\ mm_telegram = FALSE
    /\ mm_run = <<>>
    /\ mm_results = <<>>
    /\ mm_aggregate = <<>>

\* categoryCodes.map(code => this.execute(code, alertConfig)): every run has
\* reached its await of fetchFilteredProducts.
MultiInit ==
    /\ mm_pc = "running"
    /\ mm_telegram \in BOOLEAN
    /\ mm_run = [c \in CategoryRuns |-> "fetching"]
    /\ mm_results = [c \in CategoryRuns |-> EmptyResult]
    /\ mm_aggregate = <<>>

\* Steps 3 and 4 of execute, no alert to send: the run resolves.
MmFetchResolves(c) ==
    /\ mm_pc = "running"
    /\ mm_run[c] = "fetching"
    /\ \E items \in MultiLists :
         LET products == transformToProducts(items)
             matching == findMatchingProducts(products, MultiAlertConfig)
         IN  /\ ~(mm_telegram /\ Len(matching) > 0)
             /\ mm_results' = [mm_results EXCEPT ![c] =
                                  MonitoringResult(Len(products), matching, 0, 0, <<>>)]
    /\ mm_run' = [mm_run EXCEPT ![c] = "fulfilled"]
    /\ UNCHANGED <<mm_pc, mm_telegram, mm_aggregate>>
    /\ UNCHANGED nonMultiVars

\* Steps 3 to 5 of execute up to the await of sendDealAlerts.
MmFetchResolvesWithDeals(c) ==
    /\ mm_pc = "running"
    /\ mm_run[c] = "fetching"
    /\ \E items \in MultiLists :
         LET products == transformToProducts(items)
             matching == findMatchingProducts(products, MultiAlertConfig)
         IN  /\ mm_telegram /\ Len(matching) > 0
             /\ mm_results' = [mm_results EXCEPT ![c] =
                                  MonitoringResult(Len(products), matching, 0, 0, <<>>)]
    /\ mm_run' = [mm_run EXCEPT ![c] = "sending"]
    /\ UNCHANGED <<mm_pc, mm_telegram, mm_aggregate>>
    /\ UNCHANGED nonMultiVars

\* fetchFilteredProducts rejects: execute rejects with a MonitoringError.
MmFetchRejects(c) ==
    /\ mm_pc = "running"
    /\ mm_run[c] = "fetching"
    /\ mm_run' = [mm_run EXCEPT ![c] = "rejected"]
    /\ UNCHANGED <<mm_pc, mm_telegram, mm_results, mm_aggregate>>
    /\ UNCHANGED nonMultiVars

\* sendDealAlerts resolves.  `alertResults.sent` of a boolean is undefined;
\* of undefined it throws, and the catch sets alertsFailed.
MmAlertsResolve(c) ==
    /\ mm_pc = "running"
    /\ mm_run[c] = "sending"
    /\ \E alertResults \in AlertOutcomes :
         mm_results' = [mm_results EXCEPT ![c] =
            IF alertResults = "undefined"
            THEN [mm_results[c] EXCEPT
                     !.alertsFailed = Len(mm_results[c].matchingProducts)]
            ELSE [mm_results[c] EXCEPT !.alertsSent = Undefined,
                                       !.alertsFailed = Undefined]]
    /\ mm_run' = [mm_run EXCEPT ![c] = "fulfilled"]
    /\ UNCHANGED <<mm_pc, mm_telegram, mm_aggregate>>
    /\ UNCHANGED nonMultiVars

\* Promise.allSettled resolves; aggregateResults; return.
MmAggregate ==
    /\ mm_pc = "running"
    /\ \A c \in CategoryRuns : mm_run[c] \in {"fulfilled", "rejected"}
    /\ mm_aggregate' = <<aggregateResults(mm_run, mm_results, MaxCategoryRuns)>>
    /\ mm_pc' = "returned"
    /\ UNCHANGED <<mm_telegram, mm_run, mm_results>>
    /\ UNCHANGED nonMultiVars

MultiNext ==
    \/ \E c \in CategoryRuns :
          \/ MmFetchResolves(c)
          \/ MmFetchResolvesWithDeals(c)
          \/ MmFetchRejects(c)
          \/ MmAlertsResolve(c)
    \/ MmAggregate

(***************************************************************************)
(* The request handler of POST /api/send-alert over the pipeline wired by  *)
(* ServiceFactory: each network call is withRetry(withTimeout(call)); a    *)
(* stage's catch wraps what the call threw; the handler maps the error     *)
(* execute rejected with to a status.  Between the two network stages the  *)
(* Process stage finds a deal.                                             *)
(***************************************************************************)
\* handleError: the status for an error
handleError(error) ==
    IF error.kind = "ApiConfigurationError" THEN 500
    ELSE IF error.kind = "ApiTimeoutError" THEN 504
    ELSE IF error.kind = "ProductFetchError"
    THEN (IF error.statusCode # NoStatus /\ error.statusCode # 0 THEN error.statusCode ELSE 502)
    ELSE IF error.kind = "TelegramServiceError" THEN 502
    ELSE IF error.kind = "ProductProcessingError" THEN 422
    ELSE 500

\* What the service call of a stage rejects with when it fails by itself.
ServiceFailure(stage) ==
    IF stage = "Fetch" THEN HealthKartApiError(503, <<>>)
    ELSE Err("TelegramApiError", NoStatus, 0)

\* What an attempt of withTimeout(call) rejects with.
AttemptError(stage, outcome) ==
    IF outcome = "timeout" THEN Err("ApiTimeoutError", NoStatus, 0) ELSE ServiceFailure(stage)

HttpIdle ==
    /\ ht_pc = "idle"
    /\ ht_stage = "Fetch"
    /\ ht_maxRetries = 0
    /\ ht_attempt = 0
    /\ ht_outcomes = [Fetch |-> <<>>, Notify |-> <<>>]
    /\ ht_error = NoError
    /\ ht_status = 0

\* execute has called fetchFilteredProducts; the wrapper's first attempt runs.
HttpInit ==
    /\ ht_pc = "attempt"
    /\ ht_stage = "Fetch"
    /\ ht_maxRetries \in 0..MaxHttpRetries
    /\ ht_attempt = 0
    /\ ht_outcomes = [Fetch |-> <<>>, Notify |-> <<>>]
    /\ ht_error = NoError
    /\ ht_status = 0

\* The attempt rejects: the timeout won the race, or the call failed.  The
\* catch block of withRetry, then the catch block of the stage.
HtAttemptRejects ==
    /\ ht_pc = "attempt"
    /\ \E outcome \in {"timeout", "rejected"} :
         /\ ht_outcomes' = [ht_outcomes EXCEPT ![ht_stage] = Append(@, outcome)]
         /\ IF isNonRetryableError(AttemptError(ht_stage, outcome))
               \/ ht_attempt = ht_maxRetries
            THEN /\ ht_error' = StageError(ht_stage, AttemptError(ht_stage, outcome))
                 /\ ht_pc' = "failed"
            ELSE /\ ht_pc' = "sleep"
                 /\ UNCHANGED ht_error
    /\ UNCHANGED <<ht_stage, ht_maxRetries, ht_attempt, ht_status>>
    /\ UNCHANGED nonHttpVars

\* sleep(currentDelay) resolved; attempt++
HtWake ==
    /\ ht_pc = "sleep"
    /\ ht_attempt' = ht_attempt + 1
    /\ ht_pc' = "attempt"
    /\ UNCHANGED <<ht_stage, ht_maxRetries, ht_outcomes, ht_error, ht_status>>
    /\ UNCHANGED nonHttpVars

\* The call of the Fetch stage resolves within the timeout: Process, then
\* the first attempt of sendMessage.
HtFetchResolves ==
    /\ ht_pc = "attempt"
    /\ ht_stage = "Fetch"
    /\ ht_outcomes' = [ht_outcomes EXCEPT !.Fetch = Append(@, "resolved")]
    /\ ht_stage' = "Notify"
    /\ ht_attempt' = 0
    /\ UNCHANGED <<ht_pc, ht_maxRetries, ht_error, ht_status>>
    /\ UNCHANGED nonHttpVars

\* sendMessage resolves within the timeout: execute resolves.
HtNotifyResolves ==
    /\ ht_pc = "attempt"
    /\ ht_stage = "Notify"
    /\ ht_outcomes' = [ht_outcomes EXCEPT !.Notify = Append(@, "resolved")]
    /\ ht_pc' = "succeeded"
    /\ UNCHANGED <<ht_stage, ht_maxRetries, ht_attempt, ht_error, ht_status>>
    /\ UNCHANGED nonHttpVars

\* res.json(...) after execute resolved
HtRespondOk ==
    /\ ht_pc = "succeeded"
    /\ ht_status' = 200
    /\ ht_pc' = "responded"
    /\ UNCHANGED <<ht_stage, ht_maxRetries, ht_attempt, ht_outcomes, ht_error>>
    /\ UNCHANGED nonHttpVars

\* The handler's catch: res.status(handleError(error).statusCode)
HtRespondError ==
    /\ ht_pc = "failed"
    /\ ht_status' = handleError(ht_error)
    /\ ht_pc' = "responded"
    /\ UNCHANGED <<ht_stage, ht_maxRetries, ht_attempt, ht_outcomes, ht_error>>
    /\ UNCHANGED nonHttpVars

HttpNext ==
    \/ HtAttemptRejects
    \/ HtWake
    \/ HtFetchResolves
    \/ HtNotifyResolves
    \/ HtRespondOk
    \/ HtRespondError

(***************************************************************************)
(* sendAlert's one call of telegramService.sendMessage as wired by         *)
(* ServiceFactory: withRetry(() => withTimeout(originalSendMessage(...))). *)
(* Promise.race settles with whichever of the call and the timer settles   *)
(* first; the call that lost the race is not cancelled and goes on.        *)
(***************************************************************************)
DeliveryIdle ==
    /\ dl_pc = "idle"
    /\ dl_maxRetries = 0
    /\ dl_attempt = 0
    /\ dl_sends = <<>>
    /\ dl_timedOut = {}

\* The first attempt of withRetry has called the original sendMessage.
DeliveryInit ==
    /\ dl_pc = "attempt"
    /\ dl_maxRetries \in 0..MaxDeliveryRetries
    /\ dl_attempt = 0
    /\ dl_sends = <<"inflight">>
    /\ dl_timedOut = {}

\* The catch block of withRetry for a retryable error.
DlAfterFailure ==
    IF dl_attempt = dl_maxRetries THEN "rejected" ELSE "sleep"

\* The timer of the current attempt fires first: the race rejects with
\* ApiTimeoutError, which withRetry retries; the call stays in flight.
DlTimeout ==
    /\ dl_pc = "attempt"
    /\ dl_sends[Len(dl_sends)] = "inflight"
    /\ dl_timedOut' = dl_timedOut \cup {Len(dl_sends)}
    /\ dl_pc' = DlAfterFailure
    /\ UNCHANGED <<dl_maxRetries, dl_attempt, dl_sends>>
    /\ UNCHANGED nonDeliveryVars

\* A call of the original sendMessage resolves: the provider has delivered
\* the message.  Only the call the wrapper still awaits settles the race.
DlSendDelivers(call) ==
    /\ call \in DOMAIN dl_sends
    /\ dl_sends[call] = "inflight"
    /\ dl_sends' = [dl_sends EXCEPT ![call] = "delivered"]
    /\ dl_pc' = IF dl_pc = "attempt" /\ call = Len(dl_sends) THEN "resolved" ELSE dl_pc
    /\ UNCHANGED <<dl_maxRetries, dl_attempt, dl_timedOut>>
    /\ UNCHANGED nonDeliveryVars

\* A call of the original sendMessage rejects (TelegramApiError).
DlSendFails(call) ==
    /\ call \in DOMAIN dl_sends
    /\ dl_sends[call] = "inflight"
    /\ dl_sends' = [dl_sends EXCEPT ![call] = "failed"]
    /\ dl_pc' = IF dl_pc = "attempt" /\ call = Len(dl_sends) THEN DlAfterFailure ELSE dl_pc
    /\ UNCHANGED <<dl_maxRetries, dl_attempt, dl_timedOut>>
    /\ UNCHANGED nonDeliveryVars

\* sleep(currentDelay) resolved: attempt++, the original sendMessage is
\* called again.
DlWake ==
    /\ dl_pc = "sleep"
    /\ dl_attempt' = dl_attempt + 1
    /\ dl_sends' = Append(dl_sends, "inflight")
    /\ dl_pc' = "attempt"
    /\ UNCHANGED <<dl_maxRetries, dl_timedOut>>
    /\ UNCHANGED nonDeliveryVars

DeliveryNext ==
    \/ DlTimeout
    \/ \E call \in 1..(MaxDeliveryRetries + 1) : DlSendDelivers(call) \/ DlSendFails(call)
    \/ DlWake

(***************************************************************************)
(* HealthKartScheduler.  start and stop are synchronous, so each is one    *)
(* step; triggerAlert runs up to its await of fetch inside the step that   *)
(* calls it and settles in a later one.  The runtime calls the callback of *)
(* an interval timer only while the timer is active.                       *)
(***************************************************************************)
SchedulerIdle ==
    /\ sc_isRunning = FALSE
    /\ sc_intervalId = <<>>
    /\ sc_timers = {}
    /\ sc_nextId = 0
    /\ sc_triggers = 0
    /\ sc_pending = 0
    /\ sc_log = <<>>

\* new HealthKartScheduler(apiUrl, intervalMinutes)
SchedulerInit ==
    /\ sc_isRunning = FALSE
    /\ sc_intervalId = <<>>
    /\ sc_timers = {}
    /\ sc_nextId = 1
    /\ sc_triggers = 0
    /\ sc_pending = 0
    /\ sc_log = <<>>

\* Mutant of ScStart: no isRunning guard.
ScStart_unguarded ==
    /\ Len(sc_log) < MaxSchedulerCalls
    /\ sc_log' = Append(sc_log, "start")
    /\ sc_triggers' = sc_triggers + 1
    /\ sc_pending' = sc_pending + 1
    /\ sc_timers' = sc_timers \cup {sc_nextId}
    /\ sc_intervalId' = <<sc_nextId>>
    /\ sc_nextId' = sc_nextId + 1
    /\ sc_isRunning' = TRUE
    /\ UNCHANGED nonSchedulerVars

\* start(): return when running; else triggerAlert(), setInterval,
\* isRunning = true.
ScStart ==
    /\ Len(sc_log) < MaxSchedulerCalls
    /\ sc_log' = Append(sc_log, "start")
    /\ IF sc_isRunning
       THEN UNCHANGED <<sc_isRunning, sc_intervalId, sc_timers, sc_nextId, sc_triggers,
                        sc_pending>>
       ELSE /\ sc_triggers' = sc_triggers + 1
            /\ sc_pending' = sc_pending + 1
            /\ sc_timers' = sc_timers \cup {sc_nextId}
            /\ sc_intervalId' = <<sc_nextId>>
            /\ sc_nextId' = sc_nextId + 1
            /\ sc_isRunning' = TRUE
    /\ UNCHANGED nonSchedulerVars

\* stop(): return when not running; else clearInterval(intervalId),
\* intervalId = null, isRunning = false.
ScStop ==
    /\ Len(sc_log) < MaxSchedulerCalls
    /\ sc_log' = Append(sc_log, "stop")
    /\ IF ~sc_isRunning
       THEN UNCHANGED <<sc_isRunning, sc_intervalId, sc_timers>>
       ELSE /\ IF sc_intervalId # <<>>
               THEN /\ sc_timers' = sc_timers \ {sc_intervalId[1]}
                    /\ sc_intervalId' = <<>>
               ELSE UNCHANGED <<sc_intervalId, sc_timers>>
            /\ sc_isRunning' = FALSE
    /\ UNCHANGED <<sc_nextId, sc_triggers, sc_pending>>
    /\ UNCHANGED nonSchedulerVars

\* An active interval timer fires: () => { this.triggerAlert(); }
ScTick(id) ==
    /\ Len(sc_log) < MaxSchedulerCalls
    /\ id \in sc_timers
    /\ sc_log' = Append(sc_log, "tick")
    /\ sc_triggers' = sc_triggers + 1
    /\ sc_pending' = sc_pending + 1
    /\ UNCHANGED <<sc_isRunning, sc_intervalId, sc_timers, sc_nextId>>
    /\ UNCHANGED nonSchedulerVars

\* The fetch of a triggerAlert call settles; the call logs and returns.
ScTriggerSettles ==
    /\ sc_pending > 0
    /\ sc_pending' = sc_pending - 1
    /\ UNCHANGED <<sc_isRunning, sc_intervalId, sc_timers, sc_nextId, sc_triggers, sc_log>>
    /\ UNCHANGED nonSchedulerVars

SchedulerNext ==
    \/ ScStart
    \/ ScStop
    \/ \E id \in 1..MaxSchedulerCalls : ScTick(id)
    \/ ScTriggerSettles

(***************************************************************************)
(* Specifications.                                                         *)
(***************************************************************************)
\* The event loop runs every pending continuation and timer, and the operation
\* passed to withRetry settles each time it is invoked.
InitRetry == RetryInit /\ CatalogIdle /\ RateIdle /\ FilterIdle /\ AlertIdle /\ RunIdle /\ DealsIdle /\ SendIdle /\ TransformIdle /\ BatchIdle /\ ProductIdle /\ CriteriaIdle /\ MonitorIdle /\ ProteinIdle /\ MultiIdle /\ HttpIdle /\ DeliveryIdle /\ SchedulerIdle

SpecRetry == InitRetry /\ [][RetryNext]_vars /\ WF_vars(RetryNext)

InitCatalog == CatalogInit /\ RetryIdle /\ RateIdle /\ FilterIdle /\ AlertIdle /\ RunIdle /\ DealsIdle /\ SendIdle /\ TransformIdle /\ BatchIdle /\ ProductIdle /\ CriteriaIdle /\ MonitorIdle /\ ProteinIdle /\ MultiIdle /\ HttpIdle /\ DeliveryIdle /\ SchedulerIdle

SpecCatalog == InitCatalog /\ [][CatalogNext]_vars

InitRate == RateInit /\ RetryIdle /\ CatalogIdle /\ FilterIdle /\ AlertIdle /\ RunIdle /\ DealsIdle /\ SendIdle /\ TransformIdle /\ BatchIdle /\ ProductIdle /\ CriteriaIdle /\ MonitorIdle /\ ProteinIdle /\ MultiIdle /\ HttpIdle /\ DeliveryIdle /\ SchedulerIdle

SpecRate == InitRate /\ [][RateNext]_vars

InitFilter == FilterInit /\ RetryIdle /\ CatalogIdle /\ RateIdle /\ AlertIdle /\ RunIdle /\ DealsIdle /\ SendIdle /\ TransformIdle /\ BatchIdle /\ ProductIdle /\ CriteriaIdle /\ MonitorIdle /\ ProteinIdle /\ MultiIdle /\ HttpIdle /\ DeliveryIdle /\ SchedulerIdle

SpecFilter == InitFilter /\ [][FilterNext]_vars

InitAlert == AlertInit /\ RetryIdle /\ CatalogIdle /\ RateIdle /\ FilterIdle /\ RunIdle /\ DealsIdle /\ SendIdle /\ TransformIdle /\ BatchIdle /\ ProductIdle /\ CriteriaIdle /\ MonitorIdle /\ ProteinIdle /\ MultiIdle /\ HttpIdle /\ DeliveryIdle /\ SchedulerIdle

SpecAlert == InitAlert /\ [][AlertNext]_vars

InitRun == AlertInit /\ RunInit /\ RetryIdle /\ CatalogIdle /\ RateIdle /\ FilterIdle /\ DealsIdle /\ SendIdle /\ TransformIdle /\ BatchIdle /\ ProductIdle /\ CriteriaIdle /\ MonitorIdle /\ ProteinIdle /\ MultiIdle /\ HttpIdle /\ DeliveryIdle /\ SchedulerIdle

SpecRun == InitRun /\ [][RunNext]_vars

InitDeals == DealsInit /\ RetryIdle /\ CatalogIdle /\ RateIdle /\ FilterIdle /\ AlertIdle /\ RunIdle /\ SendIdle /\ TransformIdle /\ BatchIdle /\ ProductIdle /\ CriteriaIdle /\ MonitorIdle /\ ProteinIdle /\ MultiIdle /\ HttpIdle /\ DeliveryIdle /\ SchedulerIdle

SpecDeals == InitDeals /\ [][DealsNext]_vars

InitSend == SendInit /\ RetryIdle /\ CatalogIdle /\ RateIdle /\ FilterIdle /\ AlertIdle /\ RunIdle /\ DealsIdle /\ TransformIdle /\ BatchIdle /\ ProductIdle /\ CriteriaIdle /\ MonitorIdle /\ ProteinIdle /\ MultiIdle /\ HttpIdle /\ DeliveryIdle /\ SchedulerIdle

SpecSend == InitSend /\ [][SendNext]_vars

InitTransform == TransformInit /\ RetryIdle /\ CatalogIdle /\ RateIdle /\ FilterIdle /\ AlertIdle /\ RunIdle /\ DealsIdle /\ SendIdle /\ BatchIdle /\ ProductIdle /\ CriteriaIdle /\ MonitorIdle /\ ProteinIdle /\ MultiIdle /\ HttpIdle /\ DeliveryIdle /\ SchedulerIdle

SpecTransform == InitTransform /\ [][TransformNext]_vars

InitBatch == BatchInit /\ RetryIdle /\ CatalogIdle /\ RateIdle /\ FilterIdle /\ AlertIdle /\ RunIdle /\ DealsIdle /\ SendIdle /\ TransformIdle /\ ProductIdle /\ CriteriaIdle /\ MonitorIdle /\ ProteinIdle /\ MultiIdle /\ HttpIdle /\ DeliveryIdle /\ SchedulerIdle

SpecBatch == InitBatch /\ [][BatchNext]_vars

InitProduct == ProductInit /\ RetryIdle /\ CatalogIdle /\ RateIdle /\ FilterIdle /\ AlertIdle /\ RunIdle /\ DealsIdle /\ SendIdle /\ TransformIdle /\ BatchIdle /\ CriteriaIdle /\ MonitorIdle /\ ProteinIdle /\ MultiIdle /\ HttpIdle /\ DeliveryIdle /\ SchedulerIdle

SpecProduct == InitProduct /\ [][ProductNext]_vars

InitCriteria == CriteriaInit /\ RetryIdle /\ CatalogIdle /\ RateIdle /\ FilterIdle /\ AlertIdle /\ RunIdle /\ DealsIdle /\ SendIdle /\ TransformIdle /\ BatchIdle /\ ProductIdle /\ MonitorIdle /\ ProteinIdle /\ MultiIdle /\ HttpIdle /\ DeliveryIdle /\ SchedulerIdle

SpecCriteria == InitCriteria /\ [][CriteriaNext]_vars

InitMonitor == MonitorInit /\ RetryIdle /\ CatalogIdle /\ RateIdle /\ FilterIdle /\ AlertIdle /\ RunIdle /\ DealsIdle /\ SendIdle /\ TransformIdle /\ BatchIdle /\ ProductIdle /\ CriteriaIdle /\ ProteinIdle /\ MultiIdle /\ HttpIdle /\ DeliveryIdle /\ SchedulerIdle

SpecMonitor == InitMonitor /\ [][MonitorNext]_vars

InitProtein == ProteinInit /\ RetryIdle /\ CatalogIdle /\ RateIdle /\ FilterIdle /\ AlertIdle /\ RunIdle /\ DealsIdle /\ SendIdle /\ TransformIdle /\ BatchIdle /\ ProductIdle /\ CriteriaIdle /\ MonitorIdle /\ MultiIdle /\ HttpIdle /\ DeliveryIdle /\ SchedulerIdle

SpecProtein == InitProtein /\ [][ProteinNext]_vars

InitMulti == MultiInit /\ RetryIdle /\ CatalogIdle /\ RateIdle /\ FilterIdle /\ AlertIdle /\ RunIdle /\ DealsIdle /\ SendIdle /\ TransformIdle /\ BatchIdle /\ ProductIdle /\ CriteriaIdle /\ MonitorIdle /\ ProteinIdle /\ HttpIdle /\ DeliveryIdle /\ SchedulerIdle

SpecMulti == InitMulti /\ [][MultiNext]_vars

InitHttp == HttpInit /\ RetryIdle /\ CatalogIdle /\ RateIdle /\ FilterIdle /\ AlertIdle /\ RunIdle /\ DealsIdle /\ SendIdle /\ TransformIdle /\ BatchIdle /\ ProductIdle /\ CriteriaIdle /\ MonitorIdle /\ ProteinIdle /\ MultiIdle /\ DeliveryIdle /\ SchedulerIdle

SpecHttp == InitHttp /\ [][HttpNext]_vars

InitDelivery == DeliveryInit /\ RetryIdle /\ CatalogIdle /\ RateIdle /\ FilterIdle /\ AlertIdle /\ RunIdle /\ DealsIdle /\ SendIdle /\ TransformIdle /\ BatchIdle /\ ProductIdle /\ CriteriaIdle /\ MonitorIdle /\ ProteinIdle /\ MultiIdle /\ HttpIdle /\ SchedulerIdle

SpecDelivery == InitDelivery /\ [][DeliveryNext]_vars

InitScheduler == SchedulerInit /\ RetryIdle /\ CatalogIdle /\ RateIdle /\ FilterIdle /\ AlertIdle /\ RunIdle /\ DealsIdle /\ SendIdle /\ TransformIdle /\ BatchIdle /\ ProductIdle /\ CriteriaIdle /\ MonitorIdle /\ ProteinIdle /\ MultiIdle /\ HttpIdle /\ DeliveryIdle

SpecScheduler == InitScheduler /\ [][SchedulerNext]_vars

(***************************************************************************)
(* Claims about withRetry.                                                 *)
(***************************************************************************)
WrSettled == wr_pc \in {"returned", "thrown"}

\* The classification the retry helper applies: a ProductFetchError that
\* carries a 4xx status is non-retryable, every other failure is retryable.
ClassifiedNonRetryable(e) ==
    e.kind = "ProductFetchError" /\ e.statusCode \in 400..499

RetryableFailure(o) == o.tag = "err" /\ ~ClassifiedNonRetryable(o.error)

\* fn failed k times with retryable errors and then succeeded.
FailsThenSucceeds(k) ==
    /\ Len(wr_outcomes) = k + 1
    /\ \A i \in 1..k : RetryableFailure(wr_outcomes[i])
    /\ wr_outcomes[k + 1].tag = "ok"

\* Every one of the maxRetries + 1 attempts failed with a retryable error.
WrExhausted ==
    /\ Len(wr_outcomes) = wr_maxRetries + 1
    /\ \A i \in 1..(wr_maxRetries + 1) : RetryableFailure(wr_outcomes[i])

\* C1: withRetry invokes the operation at most maxRetries + 1 times, and
\* (each invocation settling) it eventually returns or throws.
C1_BoundedAndTerminates ==
    /\ [](wr_calls <= wr_maxRetries + 1)
    /\ <>WrSettled

C1_Witness ==
    /\ wr_pc = "thrown"
    /\ wr_maxRetries >= 2
    /\ wr_calls = wr_maxRetries + 1

\* C2: after k retryable failures followed by a success (k <= maxRetries),
\* withRetry has returned that success value after exactly k + 1 invocations,
\* and a success is always the last invocation.
C2_SuccessAfterFailures ==
    /\ \A k \in 0..wr_maxRetries :
         FailsThenSucceeds(k) =>
            /\ wr_pc = "returned"
            /\ wr_result = wr_outcomes[k + 1].value
            /\ wr_calls = k + 1
    /\ \A i \in 1..Len(wr_outcomes) :
         wr_outcomes[i].tag = "ok" => i = Len(wr_outcomes) /\ wr_calls = i

C2_Witness ==
    /\ wr_maxRetries = 3
    /\ FailsThenSucceeds(2)
    /\ wr_calls = 3
    /\ wr_pc = "returned"

\* C3: a failure classified non-retryable is rethrown at once: it is the last
\* invocation, no wait follows it, and when it is the first failure the
\* operation has been invoked exactly once, whatever maxRetries is.
C3_NonRetryableRethrown ==
    \A i \in 1..Len(wr_outcomes) :
       (wr_outcomes[i].tag = "err" /\ ClassifiedNonRetryable(wr_outcomes[i].error)) =>
          /\ i = Len(wr_outcomes)
          /\ wr_pc = "thrown"
          /\ wr_thrown = wr_outcomes[i].error
          /\ wr_calls = i
          /\ Len(wr_sleeps) = i - 1

C3_Witness ==
    /\ wr_maxRetries >= 3
    /\ Len(wr_outcomes) = 1
    /\ wr_outcomes[1].tag = "err"
    /\ ClassifiedNonRetryable(wr_outcomes[1].error)
    /\ wr_pc = "thrown"
    /\ wr_calls = 1
    /\ wr_sleeps = <<>>

\* C4 as stated: when all maxRetries + 1 attempts fail with retryable errors,
\* withRetry throws a RetryExhausted error carrying the attempt count
\* maxRetries + 1 and the final attempt's error.
C4_Original ==
    WrExhausted =>
       /\ wr_thrown.kind = "RetryExhaustedError"
       /\ wr_thrown.attempts = wr_maxRetries + 1
       /\ wr_thrown.cause = <<wr_outcomes[wr_maxRetries + 1].error>>

\* C4 amended: when all maxRetries + 1 attempts fail with retryable errors,
\* withRetry has invoked the operation exactly maxRetries + 1 times and throws
\* the final attempt's error itself, not wrapped and without an attempt count.
C4_ThrowsLastError ==
    WrExhausted =>
       /\ wr_pc = "thrown"
       /\ wr_calls = wr_maxRetries + 1
       /\ wr_thrown = toError(wr_outcomes[wr_maxRetries + 1].error)
       /\ wr_thrown.kind # "RetryExhaustedError"
       /\ wr_thrown.at = wr_maxRetries + 1

C4_Witness ==
    /\ WrExhausted
    /\ wr_maxRetries >= 2
    /\ wr_pc = "thrown"
    /\ wr_outcomes[1].error.kind # wr_outcomes[wr_maxRetries + 1].error.kind

(***************************************************************************)
(* Claims about the catalog client.                                        *)
(***************************************************************************)
PgSettled == pg_pc \in {"resolved", "rejected"}

\* An HTTP attempt that failed with no response, a 5xx status or status 429.
RetryableHttpFailure(h) ==
    /\ h.tag = "err"
    /\ h.error.kind = "AxiosError"
    /\ \/ h.error.statusCode = NoStatus
       \/ h.error.statusCode >= 500
       \/ h.error.statusCode = 429

\* An HTTP attempt that failed with a 4xx status other than 429.
ClientErrorFailure(h) ==
    /\ h.tag = "err"
    /\ h.error.kind = "AxiosError"
    /\ h.error.statusCode \in 400..499
    /\ h.error.statusCode # 429

\* C5: in a page fetch, an attempt that fails with no response, a 5xx status
\* or 429 is followed by another attempt while fewer than maxRetries + 1
\* attempts have been made, and an attempt that fails with another 4xx status
\* is not followed by another attempt.
C5_Original ==
    PgSettled =>
       \A i \in 1..Len(pg_http) :
          /\ (RetryableHttpFailure(pg_http[i]) /\ i < cl_maxRetries + 1)
                => Len(pg_http) > i
          /\ ClientErrorFailure(pg_http[i]) => Len(pg_http) = i

\* C6: a page fetch whose every attempt failed with a retryable failure
\* has made maxRetries + 1 attempts and rejects with a RetryExhausted error
\* (attempts = maxRetries + 1, lastError = the final failure), which
\* fetchAllCategoryProducts passes on to its caller.
C6_Original ==
    (PgSettled /\ Len(pg_http) >= 1
       /\ \A i \in 1..Len(pg_http) : RetryableHttpFailure(pg_http[i])) =>
       /\ pg_pc = "rejected"
       /\ Len(pg_http) = cl_maxRetries + 1
       /\ pg_error.kind = "RetryExhaustedError"
       /\ pg_error.attempts = cl_maxRetries + 1
       /\ pg_error.cause = <<responseInterceptor(pg_http[Len(pg_http)].error)>>
       /\ fa_pc \in {"returned", "rejected"} => (fa_pc = "rejected" /\ fa_error = pg_error)

\* The least n with n * d >= t.
CeilDiv(t, d) ==
    CHOOSE n \in 0..t : n * d >= t /\ \A m \in 0..(n - 1) : m * d < t

RECURSIVE Flatten(_)
Flatten(pages) ==
    IF pages = <<>> THEN <<>> ELSE Head(pages) \o Flatten(Tail(pages))

\* Every page fetch so far resolved, with at least one item.
AllPagesNonEmpty ==
    /\ Len(sv_pages) = Len(fa_requested)
    /\ \A i \in 1..Len(sv_pages) : Len(sv_pages[i]) > 0

C7_Original ==
    \A i, j \in 1..Len(rl_issued) :
       i < j => rl_issued[j] - rl_issued[i] >= RequestDelayMs

(***************************************************************************)
(* Claims about filtering.                                                 *)
(***************************************************************************)
\* The conjunction of the active predicates, a numeric threshold being
\* active whenever it is supplied.
SatisfiesActivePredicates(product, filter) ==
    /\ product.discount >= filter.minDiscount
    /\ filter.maxPrice # <<>> => product.offer_pr <= filter.maxPrice[1]
    /\ filter.minRating # <<>> => product.rating >= filter.minRating[1]
    /\ filter.minReviews # <<>> => product.nrvw >= filter.minReviews[1]
    /\ filter.inStockOnly => ~product.oos
    /\ filter.brands # <<>> =>
          \E b \in DOMAIN filter.brands :
             toLowerCase(product.brName) = toLowerCase(filter.brands[b])
    /\ filter.categories # <<>> =>
          \E c \in DOMAIN filter.categories :
             includes(toLowerCase(product.catName), toLowerCase(filter.categories[c]))
    /\ filter.flavors # <<>> => checkProductFlavor(product, filter.flavors)

\* C9: fetchFilteredProducts returns exactly the fetched raw items, in fetch
\* order, that satisfy all active predicates, a supplied numeric threshold
\* being active whatever its value.
C9_Original ==
    ff_pc = "returned" =>
       ff_result = SelectSeq(ff_allProducts,
                             LAMBDA product : SatisfiesActivePredicates(product, ff_filter))

(***************************************************************************)
(* Claims about SendAlertUseCase.execute.                                  *)
(***************************************************************************)
IsPrefix(s, t) == Len(s) <= Len(t) /\ SubSeq(t, 1, Len(s)) = s

StageOrder == <<"Fetch", "Process", "Notify">>

\* C10: execute begins its stages in the order Fetch, Transform+Filter,
\* Notify, each only after the previous one returned normally; a failure in
\* a stage rejects execute at once, with that stage's own error kind holding
\* the caught failure as its cause, and no later stage begins.
C10_StagesInOrder ==
    /\ IsPrefix(sa_stages, StageOrder)
    /\ IsPrefix(sa_succeeded, sa_stages)
    /\ Len(sa_stages) <= Len(sa_succeeded) + 1
    /\ sa_failure # NoError => sa_pc = "rejected"
    /\ sa_pc = "resolved" => sa_succeeded = StageOrder
    /\ sa_pc = "rejected" =>
          /\ sa_failure # NoError
          /\ Len(sa_stages) = Len(sa_succeeded) + 1
          /\ sa_error.cause = <<sa_failure>>
          /\ sa_stages = <<"Fetch">> => sa_error.kind = "ProductFetchError"
          /\ sa_stages = <<"Fetch", "Process">> => sa_error.kind = "ProductProcessingError"
          /\ sa_stages = StageOrder => sa_error.kind = "TelegramServiceError"

\* The transform stage failed after a successful fetch: execute rejected and
\* nothing was sent.
C10_Witness ==
    /\ sa_pc = "rejected"
    /\ sa_stages = <<"Fetch", "Process">>
    /\ sa_succeeded = <<"Fetch">>
    /\ sa_error.kind = "ProductProcessingError"
    /\ sa_calls = <<"fetchFilteredProducts", "transformToProducts">>

(***************************************************************************)
(* Claims about the wired run.                                             *)
(***************************************************************************)
\* An item passes the configured criteria.
MeetsCriteria(item, productFilter) ==
    /\ item.discount >= productFilter.minDiscount
    /\ item.offer_pr <= productFilter.maxPrice
    /\ item.rating >= productFilter.minRating
    /\ item.nrvw >= productFilter.minReviews
    /\ productFilter.inStockOnly => ~item.oos /\ item.ordrEnbld
    /\ productFilter.brands # <<>> =>
          \E b \in DOMAIN productFilter.brands :
             toLowerCase(item.brName) = toLowerCase(productFilter.brands[b])

QualifyingItems ==
    {i \in DOMAIN rn_catalog : MeetsCriteria(rn_catalog[i], sa_config)}

RunSettled == sa_pc \in {"resolved", "rejected"}

\* C11: when the category returns items of which none qualifies, execute
\* resolves with qualifyingDeals = 0 and telegramSent = false and sendMessage
\* is never called.
C11_Original ==
    (/\ RunSettled
     /\ Len(rn_catalog) > 0
     /\ QualifyingItems = {}
     /\ sa_failure \notin FetchFailures)
    => /\ sa_pc = "resolved"
       /\ sa_result.qualifyingDeals = 0
       /\ sa_result.telegramSent = FALSE
       /\ \A c \in DOMAIN sa_calls : sa_calls[c] # "sendMessage"

\* C12: a resolved run reports the number of items the category returned
\* and the number of those that pass the criteria.
C12_Original ==
    sa_pc = "resolved" =>
       /\ sa_result.totalProductsFetched = Len(rn_catalog)
       /\ sa_result.qualifyingDeals = Cardinality(QualifyingItems)

(***************************************************************************)
(* Claims about TelegramService.                                           *)
(***************************************************************************)
RECURSIVE ConcatBlocks(_)
ConcatBlocks(products) ==
    IF products = <<>> THEN <<>>
    ELSE formatDealAlert(Head(products)) \o ConcatBlocks(Tail(products))

\* The N products with the highest discount, in descending order.
TopDeals(products, n) ==
    SubSeq(sortByDiscount(products), 1, Min(n, Len(products)))

\* C13: for a non-empty list sendDealAlerts calls sendMessage exactly once,
\* with the blocks of the 5 products of highest discount in descending
\* order, and of no more than 5 products.
C13_Original ==
    sd_pc \in {"awaitSend", "returned"} =>
       /\ Len(sd_messages) = 1
       /\ sd_messages[1] = ConcatBlocks(TopDeals(sd_input, AlertBatchLimit))

\* C14: in one sendMessage call the bot is not invoked again after it
\* rejected with 400/401/403/404, and that call is rejected; after any other
\* failure the send is repeated until it succeeds or maxRetries + 1
\* invocations have been made.
C14_Original ==
    /\ tg_nonRetryableAt # 0 => tg_botCalls = tg_nonRetryableAt
    /\ tg_nonRetryableAt # 0 /\ tg_pc \in {"resolved", "rejected"} => tg_pc = "rejected"
    /\ tg_botCalls <= tg_maxRetries + 1
    /\ tg_pc = "rejected" /\ tg_nonRetryableAt = 0 => tg_botCalls = tg_maxRetries + 1

(***************************************************************************)
(* Claims about the transformation of raw items.                           *)
(***************************************************************************)
InRange(x, low, high) == ~isNaN(x) /\ low <= x /\ x <= high

\* id > 0 and non-empty name, brand and URL fragment.
HasRequiredFields(item) ==
    /\ ~isNaN(item.id) /\ item.id > 0
    /\ item.nm # <<>>
    /\ item.brName # <<>>
    /\ item.urlFragment # <<>>

\* The same with name, brand and URL fragment not blank.
HasNonBlankFields(item) ==
    /\ ~isNaN(item.id) /\ item.id > 0
    /\ trim(item.nm) # <<>>
    /\ trim(item.brName) # <<>>
    /\ trim(item.urlFragment) # <<>>

TransformedInRange ==
    /\ ~tf_result.threw
    /\ InRange(tf_result.value.discountPercentage, 0, MaxPercentage)
    /\ InRange(tf_result.value.rating, 0, MaxRating)

\* C15 as stated: every item with id > 0 and non-empty name, brand and
\* URL fragment is transformed, whatever its prices, with discount and
\* rating clamped into [0,100] and [0,5].
C15_Original ==
    tf_pc = "done" /\ HasRequiredFields(tf_item) => TransformedInRange

\* C15 amended: every item with id > 0, non-blank name, brand and URL
\* fragment and list and offer prices that are numbers >= 0 is transformed,
\* whatever its discount, rating and review count, with discount and rating
\* clamped into [0,100] and [0,5].
C15_TransformSucceeds ==
    (/\ tf_pc = "done"
     /\ HasNonBlankFields(tf_item)
     /\ ~isNaN(tf_item.mrp) /\ tf_item.mrp >= 0
     /\ ~isNaN(tf_item.offer_pr) /\ tf_item.offer_pr >= 0)
    => TransformedInRange

\* An item with discount 150 and rating 7 was transformed into a Product
\* with discount 100 and rating 5.
C15_Witness ==
    /\ tf_pc = "done"
    /\ HasNonBlankFields(tf_item)
    /\ tf_item.discount = 150
    /\ tf_item.rating = 7
    /\ ~tf_result.threw
    /\ tf_result.value.discountPercentage = MaxPercentage
    /\ tf_result.value.rating = MaxRating

TransformSucceeds(item) == ~transformToProduct(item).threw

\* One Product per item that transforms, in input order.
ExpectedProducts(items) ==
    LET ok == SelectSeq(items, TransformSucceeds)
    IN  [i \in 1..Len(ok) |-> transformToProduct(ok[i]).value]

InDomain(p) ==
    /\ trim(p.id) # <<>>
    /\ trim(p.name) # <<>>
    /\ trim(p.brand) # <<>>
    /\ ~isNaN(p.originalPrice) /\ p.originalPrice >= 0
    /\ ~isNaN(p.currentPrice) /\ p.currentPrice >= 0
    /\ InRange(p.discountPercentage, 0, MaxPercentage)
    /\ InRange(p.rating, 0, MaxRating)
    /\ ~isNaN(p.reviewCount) /\ p.reviewCount >= 0

\* C17 as stated: every Product instance, made by Product.create or by
\* updatePricing, has all its fields in their domains, and Product.create
\* with a field outside its domain throws and makes no Product.
C17_Original ==
    /\ pr_product # <<>> => InDomain(pr_product[1])
    /\ (pr_pc \in {"ready", "failed"} /\ ~InDomain(pr_data))
         => (pr_pc = "failed" /\ pr_product = <<>>)

(***************************************************************************)
(* Claims about Product.meetsAlertCriteria.                                *)
(***************************************************************************)
\* The stated conditions, each optional one holding when it is not given.
AllCriteriaHold(product, criteria) ==
    /\ product.discountPercentage >= criteria.minDiscount
    /\ criteria.maxPrice = <<>> \/ product.currentPrice <= criteria.maxPrice[1]
    /\ criteria.minRating = <<>> \/ product.rating >= criteria.minRating[1]
    /\ criteria.minReviews = <<>> \/ product.reviewCount >= criteria.minReviews[1]
    /\ \/ criteria.preferredBrands = <<>>
       \/ \E i \in DOMAIN criteria.preferredBrands[1] :
             includes(toLowerCase(product.brand), toLowerCase(criteria.preferredBrands[1][i]))
    /\ product.isInStock

\* C18 as stated: meetsAlertCriteria returns true exactly when the discount
\* reaches minDiscount, every given optional criterion (maxPrice, minRating,
\* minReviews, preferredBrands) holds, and the product is in stock.
C18_Original ==
    mc_pc = "done" => (mc_result <=> AllCriteriaHold(mc_product, mc_criteria))

\* C19: a Product that is not in stock never qualifies: meetsAlertCriteria
\* is false for it under every criteria, and the matching products of a
\* monitoring run hold no out-of-stock product.
C19_OutOfStockNeverMatches ==
    /\ \A i \in DOMAIN mp_matching : mp_matching[i].isInStock
    /\ \A i \in DOMAIN mp_products :
          ~mp_products[i].isInStock =>
             /\ \A criteria \in SampleCriteria : ~meetsAlertCriteria(mp_products[i], criteria)
             /\ \A j \in DOMAIN mp_matching : mp_matching[j] # mp_products[i]

\* A run whose products hold one in stock and one out of stock, both
\* meeting every other criterion, matched the first only.
C19_Witness ==
    /\ mp_pc = "done"
    /\ \E i \in DOMAIN mp_products :
          /\ ~mp_products[i].isInStock
          /\ mp_products[i].discountPercentage >= mp_alertConfig.discountThreshold
          /\ mp_products[i].currentPrice <= mp_alertConfig.maxPrice
          /\ mp_products[i].rating >= mp_alertConfig.minRating
    /\ Len(mp_matching) = 1
    /\ Len(mp_products) = 2

(***************************************************************************)
(* Claims about Product.getPricePerGramProtein.                            *)
(***************************************************************************)
\* C20 as stated: getPricePerGramProtein returns exactly 0 when the protein
\* per serving is zero or unparsable or servingsPerContainer is zero, and
\* otherwise currentPrice / (proteinPerServing * servingsPerContainer); the
\* result is never infinite or undefined.
C20_Original ==
    pp_pc = "done" =>
        LET protein == parseFloat(pp_specifications.proteinPerServing)
            servings == pp_specifications.servingsPerContainer
        IN  /\ pp_result.kind = "finite"
            /\ IF isNaN(protein) \/ protein = 0 \/ servings = 0
               THEN pp_result.num = 0
               ELSE pp_result.num * (protein * servings) = pp_price * pp_result.den

\* newPrice < 0, or newDiscount not a number of [0,100].
OutsidePricingDomain(price, discount) ==
    jsLess(price, 0) \/ ~InRange(discount, 0, MaxPercentage)

\* C21 as stated: updatePricing leaves the receiver unchanged and returns
\* another Product with the new price and discount and the receiver's other
\* fields; when the new price is below 0 or the new discount is outside
\* [0,100] it throws, returns no Product and leaves the receiver unchanged.
C21_Original ==
    [][pr_args' # pr_args =>
        /\ SubSeq(pr_heap', 1, Len(pr_heap)) = pr_heap
        /\ IF OutsidePricingDomain(pr_args'[1], pr_args'[2])
           THEN pr_threw' /\ pr_heap' = pr_heap /\ pr_product' = pr_product
           ELSE /\ ~pr_threw'
                /\ Len(pr_heap') = Len(pr_heap) + 1
                /\ pr_product'[1] = [pr_product[1] EXCEPT !.currentPrice = pr_args'[1],
                                                          !.discountPercentage = pr_args'[2]]]_vars

(***************************************************************************)
(* Claims about executeMultiCategory.                                      *)
(***************************************************************************)
Fulfilled == {c \in CategoryRuns : mm_run[c] = "fulfilled"}

RECURSIVE SumOver(_, _)
SumOver(S, f) ==
    IF S = {} THEN 0
    ELSE LET c == CHOOSE x \in S : TRUE IN mm_results[c][f] + SumOver(S \ {c}, f)

RECURSIVE ConcatMatching(_)
ConcatMatching(n) ==
    IF n = 0 THEN <<>>
    ELSE ConcatMatching(n - 1)
         \o (IF mm_run[n] = "fulfilled" THEN mm_results[n].matchingProducts ELSE <<>>)

\* C22 as stated: executeMultiCategory waits for every run, never rejects
\* because a category failed, and returns an aggregate whose totalProducts,
\* alertsSent and alertsFailed are the sums and whose matchingProducts is the
\* concatenation over the categories that succeeded, with exactly one error
\* entry per failed category.
C22_Original ==
    /\ mm_pc # "thrown"
    /\ mm_pc = "returned" =>
         /\ \A c \in CategoryRuns : mm_run[c] \in {"fulfilled", "rejected"}
         /\ mm_aggregate[1].totalProducts = SumOver(Fulfilled, "totalProducts")
         /\ mm_aggregate[1].matchingProducts = ConcatMatching(MaxCategoryRuns)
         /\ \A c \in Fulfilled : mm_results[c].alertsSent \in Nat
                                 /\ mm_results[c].alertsFailed \in Nat
         /\ mm_aggregate[1].alertsSent = SumOver(Fulfilled, "alertsSent")
         /\ mm_aggregate[1].alertsFailed = SumOver(Fulfilled, "alertsFailed")
         /\ Len(mm_aggregate[1].errors) = Cardinality(CategoryRuns \ Fulfilled)

(***************************************************************************)
(* Claims about the waits of withRetry.                                    *)
(***************************************************************************)
MaxJitterMs == 1000

RECURSIVE Power(_, _)
Power(base, n) == IF n = 0 THEN 1 ELSE base * Power(base, n - 1)

\* C23 as stated: the wait before retry n is delayMs * backoffMultiplier^(n-1)
\* plus a jitter of 0..1000 ms, and is never longer than 30 000 ms.
C23_Original ==
    \A n \in 1..Len(wr_sleeps) :
       /\ \E jitter \in 0..MaxJitterMs :
             wr_sleeps[n] = Min(wr_delayMs * Power(BackoffMultiplier, n - 1) + jitter,
                                MaxRetryDelayMs)
       /\ wr_sleeps[n] <= MaxRetryDelayMs

\* The classification C24 states: status 429, a 5xx status, a timeout and a
\* failure without status are retryable; any other 4xx status is not.
StatedRetryable(e) ==
    \/ e.kind = "ApiTimeoutError"
    \/ e.statusCode = NoStatus
    \/ e.statusCode = 429
    \/ e.statusCode \in 500..599

StatedNonRetryable(e) == e.statusCode \in 400..499 /\ e.statusCode # 429

\* C24 as stated: a failure that is retryable by the stated classification
\* (429 included) is not rethrown while retries remain, and a failure with
\* any other 4xx status is rethrown at once.
C24_Original ==
    \A i \in 1..Len(wr_outcomes) :
       wr_outcomes[i].tag = "err" =>
          /\ (StatedRetryable(wr_outcomes[i].error) /\ i <= wr_maxRetries)
                => ~(wr_pc = "thrown" /\ Len(wr_outcomes) = i)
          /\ StatedNonRetryable(wr_outcomes[i].error)
                => (wr_pc = "thrown" /\ Len(wr_outcomes) = i)

(***************************************************************************)
(* Claims about timeouts of a run.                                         *)
(***************************************************************************)
\* Every attempt of the current stage's call timed out.
AllAttemptsTimedOut ==
    /\ ht_outcomes[ht_stage] # <<>>
    /\ \A i \in DOMAIN ht_outcomes[ht_stage] : ht_outcomes[ht_stage][i] = "timeout"

\* C25 as stated: when a network call times out on every attempt, the
\* timeout is retried until the retries are exhausted and the run then fails
\* with a timeout-specific error, which the handler answers with 504.
C25_Original ==
    (ht_pc = "responded" /\ AllAttemptsTimedOut) =>
        /\ Len(ht_outcomes[ht_stage]) = ht_maxRetries + 1
        /\ ht_error.kind = "ApiTimeoutError"
        /\ ht_status = 504

(***************************************************************************)
(* Claims about the page loop of fetchAllCategoryProducts.                 *)
(***************************************************************************)
\* C26: fetchAllCategoryProducts requests pages 1, 2, 3, ... in order, none
\* skipped or repeated; it requests no page after one that came back empty
\* and then returns what it has accumulated; when a page request fails it
\* rejects with that failure, requests nothing more and returns no list.
C26_PagesInOrder ==
    /\ \A i \in 1..Len(fa_requested) : fa_requested[i] = i
    /\ \A i \in 1..(Len(fa_requested) - 1) :
          i <= Len(sv_pages) /\ Len(sv_pages[i]) > 0
    /\ Len(sv_pages) <= Len(fa_requested)
    /\ fa_pc = "returned" =>
          /\ Len(sv_pages) = Len(fa_requested)
          /\ fa_allProducts = Flatten(sv_pages)
          /\ fa_error = NoError
    /\ fa_pc = "rejected" =>
          /\ pg_pc = "rejected"
          /\ fa_error = pg_error
          /\ fa_error # NoError
          /\ Len(sv_pages) = Len(fa_requested) - 1

\* The loop returned the items of its first pages after a later page came
\* back empty.
C26_Witness ==
    /\ fa_pc = "returned"
    /\ Len(sv_pages) >= 2
    /\ sv_pages[Len(sv_pages)] = <<>>
    /\ fa_allProducts # <<>>
    /\ fa_currentPage <= fa_totalPages

(***************************************************************************)
(* Claims about the retry wrappers of ServiceFactory.                      *)
(***************************************************************************)
\* C27 as stated: one call of telegramService.sendMessage in the wired
\* pipeline invokes the chat provider's send operation at most
\* maxRetries + 1 times: the factory's retry wrapper and the service's own
\* retry loop do not multiply each other's attempts.
C27_Original == tg_wrapped => tg_botCalls <= tg_maxRetries + 1

(***************************************************************************)
(* Claims about message delivery.                                          *)
(***************************************************************************)
Delivered == {call \in DOMAIN dl_sends : dl_sends[call] = "delivered"}

\* C28 as stated: within one run the provider delivers at most one alert
\* message, also when an attempt outlasts the timeout: a timed-out attempt
\* still in flight and the retry started after it never both deliver.
C28_Original == Cardinality(Delivered) <= 1


(***************************************************************************)
(* Claims about the AlertExecutionResult of a run.                         *)
(***************************************************************************)
\* The ProductSummary of a Product, by the fields the products carry here.
SummaryOf(product) ==
    [name |-> product.name, currentPrice |-> product.currentPrice,
     discountPercentage |-> product.discountPercentage, rating |-> product.rating]

Qualifies(product) ==
    /\ product.discountPercentage >= sa_config.minDiscount
    /\ product.currentPrice <= sa_config.maxPrice
    /\ product.rating >= sa_config.minRating
    /\ product.reviewCount >= sa_config.minReviews
    /\ sa_config.inStockOnly => product.isInStock

\* C29: every result execute returns has qualifyingDeals <=
\* totalProductsFetched; deals has exactly min(qualifyingDeals,
\* maxProductsInAlert) entries, the i-th being the summary of the i-th
\* qualifying product; telegramSent is true only if there is at least one
\* qualifying deal and the Notify stage completed successfully.
C29_ResultInvariant ==
    sa_pc = "resolved" =>
        /\ sa_result.totalProductsFetched = Len(sa_rawProducts)
        /\ sa_result.qualifyingDeals = Len(sa_qualifyingDeals)
        /\ sa_result.qualifyingDeals <= sa_result.totalProductsFetched
        /\ Len(sa_result.deals)
              = Min(sa_result.qualifyingDeals, sa_config.maxProductsInAlert)
        /\ \A i \in DOMAIN sa_result.deals :
              /\ Qualifies(sa_qualifyingDeals[i])
              /\ sa_result.deals[i] = SummaryOf(sa_qualifyingDeals[i])
        /\ sa_result.telegramSent =>
              /\ sa_result.qualifyingDeals >= 1
              /\ sa_succeeded[Len(sa_succeeded)] = "Notify"

\* A run returned a result with more qualifying deals than the alert shows
\* and the message sent.
C29_Witness ==
    /\ sa_pc = "resolved"
    /\ sa_result.qualifyingDeals > sa_config.maxProductsInAlert
    /\ Len(sa_result.deals) = sa_config.maxProductsInAlert
    /\ sa_result.telegramSent

(***************************************************************************)
(* Claims about HealthKartScheduler.                                       *)
(***************************************************************************)
\* The step is the call `call` of the scheduler or of its timer.
IsCall(call) ==
    /\ Len(sc_log') = Len(sc_log) + 1
    /\ sc_log'[Len(sc_log')] = call

OneTimerIffRunning ==
    /\ Cardinality(sc_timers) <= 1
    /\ sc_isRunning <=> sc_timers # {}

SchedulerStep ==
    /\ (sc_isRunning /\ IsCall("start")) =>
          UNCHANGED <<sc_isRunning, sc_intervalId, sc_timers, sc_nextId, sc_triggers>>
    /\ (~sc_isRunning /\ IsCall("stop")) =>
          UNCHANGED <<sc_isRunning, sc_intervalId, sc_timers, sc_nextId, sc_triggers>>
    /\ (~sc_isRunning /\ sc_triggers' # sc_triggers) => IsCall("start")

\* C30: over any sequence of start() and stop() calls at most one interval
\* timer is active and isRunning is true exactly when one is; start() while
\* running creates no timer and triggers no check, stop() while stopped
\* changes nothing, and while stopped only start() starts a triggerAlert.
C30_OneTimer == []OneTimerIffRunning /\ [][SchedulerStep]_vars

\* start() was called while running and stop() while stopped, and after a
\* stop and a restart the new timer has fired.
C30_Witness ==
    /\ \E i \in DOMAIN sc_log : i > 1 /\ sc_log[i] = "start" /\ sc_log[i - 1] = "start"
    /\ \E i \in DOMAIN sc_log : i > 1 /\ sc_log[i] = "stop" /\ sc_log[i - 1] = "stop"
    /\ sc_log[Len(sc_log)] = "tick"
    /\ sc_nextId > 2

=============================================================================
